---- MODULE Spec2Model ----
(***************************************************************************)
(* Model of the UK property investment prediction service:                 *)
(*   - FreeRealTimeDataProvider (api/real-time-data.js): the in-memory     *)
(*     cache, the upstream fetchers, getAllEconomicData;                   *)
(*   - getEnhancedPropertyData (api/real-time-data.js): the fan-out/fusion *)
(*     of the fetchers;                                                    *)
(*   - the predictions handler (api/ai-predictions.js) and its validator.  *)
(* Time is Date.now() in milliseconds.  Percentages are held in hundredths *)
(* (5.25 % is 525).                                                        *)
(***************************************************************************)
EXTENDS Integers, Sequences, FiniteSets, TLC

VARIABLES
  now,          \* Date.now()
  ticks,        \* number of clock advances so far
  inst,         \* who holds the provider instance: "none", "client", "request"
  cache,        \* this.cache       : key -> value
  cacheExpiry,  \* this.cacheExpiry : key -> expiry timestamp
  task,         \* one promise per fetcher: [st, key, val]
  econ,         \* promise of getAllEconomicData: [st, val]
  enhanced,     \* promise of getEnhancedPropertyData: [st, val]
  hpc,          \* position of the predictions handler
  req,          \* the request being (or last) served: [method, postcode]
  nreq,         \* number of requests received
  responses,    \* responses sent for the request in req, in order
  lookup,       \* history: the last isCached call [key, at, hit, setAt, setDur, inCache, inExpiry]
  written,      \* history: key -> [at, dur] of the latest setCache on the instance
  served,       \* history: key -> [expiry, by] of entries cached while serving request number by
  upstream,     \* history: fetcher -> what the upstream delivered to the current call
  race,         \* concurrent calls of one fetcher on a client's instance: [call, at, log]
  issued,       \* history: fetchers whose upstream was called for the request in req
  trace,        \* history: handler events of the request in req
  vIn,          \* input of the validator run
  vOut,         \* result of the validator run: "none", "accept", "reject"
  aIn,          \* input of the area-code run: a postcode string
  aOut,         \* result of the area-code run: [engine, code]
  eIn,          \* input of the engine run: the fused data, the postcode, the clock
  eOut,         \* progress and results of the engine run
  pIn,          \* input of the parser run: the lines of a price-paid payload
  pOut          \* progress and results of the parser run

vars == <<now, ticks, inst, cache, cacheExpiry, task, econ, enhanced, hpc, req,
          nreq, responses, lookup, written, served, upstream, race, issued, trace,
          vIn, vOut, aIn, aOut, eIn, eOut, pIn, pOut>>

-----------------------------------------------------------------------------
(* Bounds *)

MaxTicks == 3
MaxRequests == 2
MaxLen == 6
MaxPrefix == 3

-----------------------------------------------------------------------------
(* Program constants *)

HourMs == 3600000

\* this.cacheDuration (constructor)
cacheDuration ==
  [ bankRate     |-> 24 * HourMs,
    onsData      |-> 12 * HourMs,
    crimeData    |-> 7 * 24 * HourMs,
    landRegistry |-> 24 * HourMs ]

\* "|| 60 * 60 * 1000" in setCache
DefaultDuration == HourMs

\* fallbacks of getAllEconomicData, in hundredths of a percent
FallbackBaseRate == 525
FallbackInflation == 420
FallbackUnemployment == 410
FallbackGdpGrowth == 60

\* fallback snapshot of getPoliceData
FallbackTotalCrimes == 25
FallbackCrimeRate == 300

EconFetchers == {"bankRate", "inflation", "unemployment", "gdpGrowth"}
Fetchers == EconFetchers \cup {"landRegistry", "coords", "crime"}

\* no fetcher has a second source
SingleTier == {}

\* the fetchers that try a second source when the first fails
TwoTier == {"bankRate", "inflation"}

\* two callers that call the same fetcher on the client's instance without
\* awaiting each other (Promise.all of two calls, two event handlers)
Callers == {1, 2}

EmptyMap == [k \in {} |-> 0]

-----------------------------------------------------------------------------
(* Values *)

\* what the upstream sources can answer (hundredths of a percent)
LiveValues(f) ==
  CASE f = "bankRate"     -> {475}
    [] f = "inflation"    -> {310}
    [] f = "unemployment" -> {440}
    [] f = "gdpGrowth"    -> {20}

\* a number of the parsers and the engines: an integer, or NaN
Num(v) == [nan |-> FALSE, v |-> v]
NaN == [nan |-> TRUE, v |-> 0]

\* a record of parseLandRegistryCSV: price in pounds, date as written in the
\* payload, property type (the fields the service goes on to read)
Sale(price, date, propertyType) ==
  [price |-> price, date |-> date, propertyType |-> propertyType]

\* the sales lists the price-paid source can answer
LiveSales == { << Sale(Num(250000), <<"2", "0", "2", "4", "-", "0", "3", "-", "0", "1">>, "F") >> }

\* the coordinate pairs the postcode lookup can answer
LiveCoords == { [isNull |-> FALSE, lat |-> 51, lng |-> 0] }
NullCoords == [isNull |-> TRUE, lat |-> 0, lng |-> 0]

\* the numbers of crimes the police source can answer
LiveCrimeCounts == {3}

\* crimeData = null
NullCrime == [isNull |-> TRUE, totalCrimes |-> 0, crimeRate |-> 0, source |-> "undefined"]

\* the snapshot getPoliceData builds from a live answer: it has no source field
LiveCrime(n) ==
  [isNull |-> FALSE, totalCrimes |-> n, crimeRate |-> n * 12, source |-> "undefined"]

\* the snapshot getPoliceData returns from its catch block
FallbackCrime ==
  [isNull |-> FALSE, totalCrimes |-> FallbackTotalCrimes,
   crimeRate |-> FallbackCrimeRate, source |-> "fallback"]

-----------------------------------------------------------------------------
(* Cache of FreeRealTimeDataProvider.  A key is the tuple of the parts the   *)
(* code joins with "_": <<"bankRate">>, <<"landRegistry", postcode>>,         *)
(* <<"crime", lat, lng>>.                                                     *)

\* cacheKey of each fetcher
CacheKey(f, arg) ==
  CASE f \in EconFetchers -> <<f>>
    [] f = "landRegistry" -> <<"landRegistry", arg>>
    [] f = "crime"        -> <<"crime", arg.lat, arg.lng>>
    [] OTHER              -> <<f>>

\* this.cacheDuration[key] || 60 * 60 * 1000: the whole key string is looked
\* up, so only a one-part key can name a configured duration
DurationOf(key) ==
  IF Len(key) = 1 /\ key[1] \in DOMAIN cacheDuration
    THEN cacheDuration[key[1]]
    ELSE DefaultDuration

MapPut(m, k, v) == [x \in (DOMAIN m) \cup {k} |-> IF x = k THEN v ELSE m[x]]
MapDel(m, k) == [x \in (DOMAIN m) \ {k} |-> m[x]]

\* the comparison of isCached, inverted
ExpiredInverted(t, expiry) == t < expiry

\* the test "Date.now() > expiry" of isCached
Expired(t, expiry) == t > expiry

\* an isCached that removes an expired key from the value map only
isCachedKeepsExpiry(c, e, key, t) ==
  IF key \notin DOMAIN e
    THEN [hit |-> FALSE, cache |-> c, expiry |-> e]
    ELSE IF Expired(t, e[key])
      THEN [hit |-> FALSE, cache |-> MapDel(c, key), expiry |-> e]
      ELSE [hit |-> key \in DOMAIN c, cache |-> c, expiry |-> e]

\* isCached(key) at time t on the maps c (cache) and e (cacheExpiry):
\* the value returned and the maps it leaves
isCached(c, e, key, t) ==
  IF key \notin DOMAIN e
    THEN [hit |-> FALSE, cache |-> c, expiry |-> e]
    ELSE IF Expired(t, e[key])
      THEN [hit |-> FALSE, cache |-> MapDel(c, key), expiry |-> MapDel(e, key)]
      ELSE [hit |-> key \in DOMAIN c, cache |-> c, expiry |-> e]

\* a setCache that leaves the expiry of a key already present as it is
setCacheKeepsExpiry(c, e, key, value, t) ==
  [cache |-> MapPut(c, key, value),
   expiry |-> IF key \in DOMAIN e THEN e ELSE MapPut(e, key, t + DurationOf(key))]

\* setCache(key, value) at time t
setCache(c, e, key, value, t) ==
  [cache |-> MapPut(c, key, value), expiry |-> MapPut(e, key, t + DurationOf(key))]

-----------------------------------------------------------------------------
(* Postcode validation.  A string is a sequence of one-character strings. *)

\* the upper-case form of each lower-case letter
UpperOf ==
  [ a |-> "A", b |-> "B", c |-> "C", d |-> "D", e |-> "E", f |-> "F", g |-> "G",
    h |-> "H", i |-> "I", j |-> "J", k |-> "K", l |-> "L", m |-> "M", n |-> "N",
    o |-> "O", p |-> "P", q |-> "Q", r |-> "R", s |-> "S", t |-> "T", u |-> "U",
    v |-> "V", w |-> "W", x |-> "X", y |-> "Y", z |-> "Z" ]

LowerLetters == DOMAIN UpperOf
UpperLetters == { UpperOf[ch] : ch \in LowerLetters }
Digits == {"0", "1", "2", "3", "4", "5", "6", "7", "8", "9"}
Whitespace == {" "}

\* String.prototype.toUpperCase, character by character
UpperChar(ch) == IF ch \in LowerLetters THEN UpperOf[ch] ELSE ch

toUpperCase(s) == [i \in 1..Len(s) |-> UpperChar(s[i])]

IsSpace(ch) == ch \in Whitespace

\* s.replace(/\s+/g, "")
StripWhitespace(s) == SelectSeq(s, LAMBDA ch : ~IsSpace(ch))

\* character classes of the two patterns, under the i flag:
\* "L" is [A-Z], "D" is [0-9], "S" is \s
InClass(ch, cls) ==
  CASE cls = "L" -> ch \in UpperLetters \cup LowerLetters
    [] cls = "D" -> ch \in Digits
    [] cls = "S" -> ch \in Whitespace

\* /^[A-Z]{1,2}[0-9]{1,2}[A-Z]?\s?[0-9][A-Z]{2}$/i
ukPostcodeRegex ==
  << [cls |-> "L", lo |-> 1, hi |-> 2], [cls |-> "D", lo |-> 1, hi |-> 2],
     [cls |-> "L", lo |-> 0, hi |-> 1], [cls |-> "S", lo |-> 0, hi |-> 1],
     [cls |-> "D", lo |-> 1, hi |-> 1], [cls |-> "L", lo |-> 2, hi |-> 2] >>

\* /^[A-Z]{1,2}[0-9]{1,2}[A-Z]?$/i
outwardOnly ==
  << [cls |-> "L", lo |-> 1, hi |-> 2], [cls |-> "D", lo |-> 1, hi |-> 2],
     [cls |-> "L", lo |-> 0, hi |-> 1] >>

\* positions reachable from the positions P by matching one quantified class
RegexStep(P, item, s) ==
  { pk[1] + pk[2] :
      pk \in { x \in P \X (item.lo .. item.hi) :
                 /\ x[1] + x[2] - 1 <= Len(s)
                 /\ \A j \in x[1] .. (x[1] + x[2] - 1) : InClass(s[j], item.cls) } }

RECURSIVE RegexRun(_, _, _, _)
RegexRun(pat, i, P, s) ==
  IF i > Len(pat) THEN P ELSE RegexRun(pat, i + 1, RegexStep(P, pat[i], s), s)

\* regex.test(s) for a pattern anchored with ^ and $
RegexTest(pat, s) == (Len(s) + 1) \in RegexRun(pat, 1, {1}, s)

\* the string the outward-only pattern is tested against
OutwardSubject(postcode) == toUpperCase(StripWhitespace(postcode))

isValidUKPostcode(postcode) ==
  \/ RegexTest(ukPostcodeRegex, postcode)
  \/ RegexTest(outwardOnly, OutwardSubject(postcode))

\* the strings of the validator run
RECURSIVE StringsUpTo(_)
StringsUpTo(n) ==
  IF n = 0 THEN { <<>> }
  ELSE LET shorter == StringsUpTo(n - 1)
       IN shorter \cup { Append(t, ch) : t \in { u \in shorter : Len(u) = n - 1 }, ch \in {"A", "a", "1", " ", "-"} }

-----------------------------------------------------------------------------
(* Promises of the fetchers *)

IdleTask == [st |-> "idle", key |-> <<>>, val |-> 0]
IdlePromise == [st |-> "idle", val |-> 0]
NoLookup ==
  [key |-> <<>>, at |-> 0, hit |-> FALSE, known |-> FALSE, setAt |-> 0, setDur |-> 0,
   inCache |-> FALSE, inExpiry |-> FALSE]
NoUpstream == [res |-> "none", val |-> 0]

InFlight(tk) == tk.st \in {"primary", "secondary"}
IsSettled(tk) == tk.st \in {"fulfilled", "rejected"}

\* what each upstream can answer
Answers(f) ==
  CASE f \in EconFetchers -> LiveValues(f)
    [] f = "landRegistry" -> LiveSales
    [] f = "coords"       -> LiveCoords
    [] f = "crime"        -> LiveCrimeCounts

\* the head of a cached fetcher, up to its first await:
\*   if (this.isCached(cacheKey)) return this.getFromCache(cacheKey); ... fetch(...)
CallFetcher(f, arg, c, e, t) ==
  LET key == CacheKey(f, arg)
      r   == isCached(c, e, key, t)
  IN  [ task   |-> IF r.hit THEN [st |-> "fulfilled", key |-> key, val |-> r.cache[key]]
                            ELSE [st |-> "primary", key |-> key, val |-> 0],
        hit    |-> r.hit,
        cache  |-> r.cache,
        expiry |-> r.expiry ]

\* history record of an isCached call that left the maps c, e
LookupOf(key, t, hit, c, e, w) ==
  [ key |-> key, at |-> t, hit |-> hit,
    known |-> key \in DOMAIN w,
    setAt |-> IF key \in DOMAIN w THEN w[key].at ELSE 0,
    setDur |-> IF key \in DOMAIN w THEN w[key].dur ELSE 0,
    inCache |-> key \in DOMAIN c, inExpiry |-> key \in DOMAIN e ]

\* a fetcher that also caches the value it substitutes for a failed fetch
FetcherCachesSubstitute(f, tk, ok, v) ==
  IF ok
    THEN [ task  |-> [st |-> "fulfilled", key |-> tk.key,
                      val |-> IF f = "crime" THEN LiveCrime(v) ELSE v],
           write |-> f # "coords" ]
    ELSE [ task  |-> CASE f \in TwoTier /\ tk.st = "primary"
                            -> [st |-> "secondary", key |-> tk.key, val |-> 0]
                       [] f \in EconFetchers
                            -> [st |-> "rejected", key |-> tk.key, val |-> 0]
                       [] f = "landRegistry"
                            -> [st |-> "fulfilled", key |-> tk.key, val |-> <<>>]
                       [] f = "coords"
                            -> [st |-> "fulfilled", key |-> tk.key, val |-> NullCoords]
                       [] f = "crime"
                            -> [st |-> "fulfilled", key |-> tk.key, val |-> FallbackCrime],
           write |-> f \in {"landRegistry", "crime"} ]

\* how a fetcher continues when its upstream call answers (ok, with answer v)
\* or fails: the promise it leaves and whether it calls setCache
FetcherOutcome(f, tk, ok, v) ==
  IF ok
    THEN [ task  |-> [st |-> "fulfilled", key |-> tk.key,
                      val |-> IF f = "crime" THEN LiveCrime(v) ELSE v],
           write |-> f # "coords" ]
    ELSE [ task  |-> CASE f \in TwoTier /\ tk.st = "primary"
                            -> [st |-> "secondary", key |-> tk.key, val |-> 0]
                       [] f \in EconFetchers
                            -> [st |-> "rejected", key |-> tk.key, val |-> 0]
                       [] f = "landRegistry"
                            -> [st |-> "fulfilled", key |-> tk.key, val |-> <<>>]
                       [] f = "coords"
                            -> [st |-> "fulfilled", key |-> tk.key, val |-> NullCoords]
                       [] f = "crime"
                            -> [st |-> "fulfilled", key |-> tk.key, val |-> FallbackCrime],
           write |-> FALSE ]

-----------------------------------------------------------------------------
(* getAllEconomicData *)

getFallbackEconomicData ==
  [ baseRate |-> FallbackBaseRate, inflation |-> FallbackInflation,
    unemploymentRate |-> FallbackUnemployment, gdpGrowth |-> FallbackGdpGrowth,
    dataSources |-> [bankRate |-> "fallback", inflation |-> "fallback",
                     unemployment |-> "fallback", gdpGrowth |-> "fallback"] ]

\* Promise.all, which rejects as soon as one promise rejects
FailFast(ts) == \E f \in DOMAIN ts : ts[f].st = "rejected"

\* Promise.allSettled never rejects: whether awaiting it throws
SettleAllRejects(ts) == FALSE

Pick(tk, fallback) == IF tk.st = "fulfilled" THEN tk.val ELSE fallback
Label(tk) == IF tk.st = "fulfilled" THEN "live" ELSE "fallback"

\* the value getAllEconomicData resolves with, from its four settled promises
getAllEconomicData(ts) ==
  IF SettleAllRejects(ts)
    THEN getFallbackEconomicData
    ELSE [ baseRate         |-> Pick(ts["bankRate"], FallbackBaseRate),
           inflation        |-> Pick(ts["inflation"], FallbackInflation),
           unemploymentRate |-> Pick(ts["unemployment"], FallbackUnemployment),
           gdpGrowth        |-> Pick(ts["gdpGrowth"], FallbackGdpGrowth),
           dataSources      |-> [ bankRate     |-> Label(ts["bankRate"]),
                                  inflation    |-> Label(ts["inflation"]),
                                  unemployment |-> Label(ts["unemployment"]),
                                  gdpGrowth    |-> Label(ts["gdpGrowth"]) ] ]

-----------------------------------------------------------------------------
(* getEnhancedPropertyData *)

\* prices.reduce((sum, price) => sum + price, 0)
RECURSIVE Sum(_)
Sum(values) == IF values = <<>> THEN 0 ELSE Head(values) + Sum(Tail(values))

\* calculateEnhancedMetrics without its "if (crimeData)" guard
ReadsCrimeRateUnguarded(crimeData) == TRUE

\* "if (crimeData)": whether calculateEnhancedMetrics reads crimeData.crimeRate
ReadsCrimeRate(crimeData) == ~crimeData.isNull

\* calculateEnhancedMetrics: which derived fields it sets, and whether it throws
\* (reading a property of null).
\*   prices        recentSales.map((sale) => sale.price).filter((price) => price > 0)
\*   averagePrice  not set without sales, null without a positive price
\*   priceGrowth   in thousandths of a percent: set with three positive prices
\*                 or more, ((newAvg - oldAvg) / oldAvg) * 100 over the first
\*                 three and the last three prices
\*   propertyTypes the number of sales of each type the engine reads
\*   crimeImpact   safetyScore = Math.max(1, 10 - crimeRate / 50) in thousandths
calculateEnhancedMetrics(recentSales, economicData, crimeData) ==
  LET kept   == SelectSeq(recentSales, LAMBDA sale : ~sale.price.nan /\ sale.price.v > 0)
      prices == [i \in 1..Len(kept) |-> kept[i].price.v]
      n      == Len(prices)
      averagePrice ==
        IF Len(recentSales) = 0 THEN [kind |-> "absent", v |-> 0]
        ELSE IF n = 0 THEN [kind |-> "null", v |-> 0]
        ELSE [kind |-> "number", v |-> (2 * Sum(prices) + n) \div (2 * n)]
      priceGrowth ==
        IF Len(recentSales) = 0 \/ n < 3 THEN [present |-> FALSE, v |-> Num(0)]
        ELSE LET oldSum == Sum(SubSeq(prices, n - 2, n))
                 newSum == Sum(SubSeq(prices, 1, 3))
             IN  [ present |-> TRUE,
                   v |-> Num((2 * (newSum - oldSum) * 1000 + (oldSum \div 100))
                             \div (2 * (oldSum \div 100))) ]
      Count(t) == Len(SelectSeq(recentSales, LAMBDA sale : sale.propertyType = t))
      propertyTypes ==
        [ present |-> Len(recentSales) > 0,
          F |-> Count("F"), D |-> Count("D"), S |-> Count("S"), T |-> Count("T") ]
      crimeImpact ==
        IF crimeData.isNull THEN [present |-> FALSE, safetyScore |-> Num(0)]
        ELSE [ present |-> TRUE,
               safetyScore |-> Num(IF 10000 - crimeData.crimeRate * 20 > 1000
                                     THEN 10000 - crimeData.crimeRate * 20 ELSE 1000) ]
  IN
  [ threw          |-> ReadsCrimeRate(crimeData) /\ crimeData.isNull,
    hasSales       |-> Len(recentSales) > 0,
    hasEconomic    |-> TRUE,
    hasCrimeImpact |-> ReadsCrimeRate(crimeData),
    crimeRate      |-> IF ReadsCrimeRate(crimeData) THEN crimeData.crimeRate ELSE 0,
    averagePrice   |-> averagePrice,
    priceGrowth    |-> priceGrowth,
    propertyTypes  |-> propertyTypes,
    crimeImpact    |-> crimeImpact ]

\* crime: crimeData?.source !== "fallback" ? "live" : "fallback"
CrimeLabel(crimeData) ==
  LET source == IF crimeData.isNull THEN "undefined" ELSE crimeData.source
  IN  IF source # "fallback" THEN "live" ELSE "fallback"

\* the promise getEnhancedPropertyData settles with
EnhancedResult(postcode, economic, recentSales, crimeData) ==
  LET metrics == calculateEnhancedMetrics(recentSales, economic, crimeData)
  IN  IF metrics.threw
        THEN [st |-> "rejected", val |-> 0]
        ELSE [st |-> "fulfilled",
              val |-> [ postcode        |-> toUpperCase(postcode),
                        economicData    |-> economic,
                        recentSales     |-> recentSales,
                        crimeData       |-> crimeData,
                        enhancedMetrics |-> metrics,
                        dataQuality     |->
                          [ economic    |-> economic.dataSources,
                            recentSales |-> IF Len(recentSales) > 0 THEN "live" ELSE "unavailable",
                            crime       |-> CrimeLabel(crimeData) ] ]]

-----------------------------------------------------------------------------
(* The predictions handler *)

Methods == {"GET", "POST", "OPTIONS"}

\* req.query.postcode: absent, or one of these strings
RequestPostcodes == { <<>>, <<"M", "1">>, <<"M", " ", "1">>, <<"1", "M">> }
Queries ==
  { [present |-> FALSE, str |-> <<>>] } \cup
  { [present |-> TRUE, str |-> s] : s \in RequestPostcodes }

\* "!postcode": undefined or the empty string
PostcodeMissing(q) == ~q.present \/ q.str = <<>>

\* "const { postcode } = req.query" is declared inside the try block, and the
\* catch block that runs the fallback is another block: whether the name
\* postcode resolves there
PostcodeInCatchScope == FALSE

\* whether UniversalUKPredictor's generatePredictions / calculateRisk /
\* generateRecommendation / getAreaInfo throw on a postcode string: they only
\* strip, upper-case and slice the string and read the area table
FallbackEngineThrows(postcode) == FALSE

\* the catch block of the handler: new UniversalUKPredictor(), then the engine
\* called with the name postcode
FallbackAttempt(postcode) ==
  [ constructed |-> TRUE,
    engineRan   |-> PostcodeInCatchScope,
    engineThrew |-> PostcodeInCatchScope /\ FallbackEngineThrows(postcode),
    threw       |-> ~PostcodeInCatchScope \/ FallbackEngineThrows(postcode) ]

Response(status, success, dataSource) ==
  [status |-> status, success |-> success, dataSource |-> dataSource]

\* the handler without its format check
VerdictUnvalidated(m, q) ==
  CASE m = "OPTIONS"               -> "options"
    [] m # "GET"                   -> "method"
    [] PostcodeMissing(q)          -> "missing"
    [] OTHER                       -> "proceed"

\* a handler that tests for GET before it tests for OPTIONS
VerdictMethodFirst(m, q) ==
  CASE m # "GET"                   -> "method"
    [] PostcodeMissing(q)          -> "missing"
    [] ~isValidUKPostcode(q.str)   -> "invalid"
    [] OTHER                       -> "proceed"

\* what the handler decides before any await
Verdict(m, q) ==
  CASE m = "OPTIONS"               -> "options"
    [] m # "GET"                   -> "method"
    [] PostcodeMissing(q)          -> "missing"
    [] ~isValidUKPostcode(q.str)   -> "invalid"
    [] OTHER                       -> "proceed"

EarlyResponse(verdict) ==
  CASE verdict = "options" -> Response(200, "none", "none")
    [] verdict = "method"  -> Response(405, "false", "none")
    [] verdict = "missing" -> Response(400, "false", "none")
    [] verdict = "invalid" -> Response(400, "false", "none")

-----------------------------------------------------------------------------
(* Area tables and area-code resolution of the two engines.  In the engines  *)
(* every number is held in thousandths: 4.2 % is 4200, a risk factor of 1.1  *)
(* is 1100, a confidence of 0.95 is 950.                                     *)

\* UniversalRealTimePredictor.initializeComprehensiveUKAreaData
areaData ==
  [
    E |-> [region |-> "London East", basePrice |-> 520000, growthRate |-> 4200, yield |-> 3800, riskFactor |-> 1100],
    EC |-> [region |-> "London City", basePrice |-> 780000, growthRate |-> 3800, yield |-> 3200, riskFactor |-> 900],
    N |-> [region |-> "London North", basePrice |-> 610000, growthRate |-> 4000, yield |-> 3500, riskFactor |-> 1000],
    NW |-> [region |-> "London Northwest", basePrice |-> 690000, growthRate |-> 3900, yield |-> 3400, riskFactor |-> 950],
    SE |-> [region |-> "London Southeast", basePrice |-> 480000, growthRate |-> 4300, yield |-> 4100, riskFactor |-> 1050],
    SW |-> [region |-> "London Southwest", basePrice |-> 750000, growthRate |-> 3700, yield |-> 3100, riskFactor |-> 900],
    W |-> [region |-> "London West", basePrice |-> 820000, growthRate |-> 3500, yield |-> 2900, riskFactor |-> 850],
    WC |-> [region |-> "London West Central", basePrice |-> 950000, growthRate |-> 3200, yield |-> 2800, riskFactor |-> 800],
    M |-> [region |-> "Manchester", basePrice |-> 280000, growthRate |-> 5200, yield |-> 5800, riskFactor |-> 1300],
    B |-> [region |-> "Birmingham", basePrice |-> 240000, growthRate |-> 4800, yield |-> 6200, riskFactor |-> 1400],
    L |-> [region |-> "Liverpool", basePrice |-> 180000, growthRate |-> 5500, yield |-> 7100, riskFactor |-> 1600],
    LS |-> [region |-> "Leeds", basePrice |-> 220000, growthRate |-> 4900, yield |-> 6000, riskFactor |-> 1300],
    S |-> [region |-> "Sheffield", basePrice |-> 195000, growthRate |-> 4700, yield |-> 6800, riskFactor |-> 1400],
    NG |-> [region |-> "Nottingham", basePrice |-> 210000, growthRate |-> 4500, yield |-> 6300, riskFactor |-> 1350],
    LE |-> [region |-> "Leicester", basePrice |-> 200000, growthRate |-> 4600, yield |-> 6500, riskFactor |-> 1400],
    CV |-> [region |-> "Coventry", basePrice |-> 240000, growthRate |-> 4500, yield |-> 6000, riskFactor |-> 1300],
    WV |-> [region |-> "Wolverhampton", basePrice |-> 190000, growthRate |-> 4700, yield |-> 6700, riskFactor |-> 1450],
    WS |-> [region |-> "Walsall", basePrice |-> 185000, growthRate |-> 4600, yield |-> 6900, riskFactor |-> 1500],
    G |-> [region |-> "Glasgow", basePrice |-> 170000, growthRate |-> 3800, yield |-> 7200, riskFactor |-> 1500],
    EH |-> [region |-> "Edinburgh", basePrice |-> 350000, growthRate |-> 4100, yield |-> 5100, riskFactor |-> 1100],
    AB |-> [region |-> "Aberdeen", basePrice |-> 280000, growthRate |-> 2900, yield |-> 5800, riskFactor |-> 1800],
    DD |-> [region |-> "Dundee", basePrice |-> 160000, growthRate |-> 3500, yield |-> 7500, riskFactor |-> 1600],
    FK |-> [region |-> "Falkirk", basePrice |-> 145000, growthRate |-> 3200, yield |-> 7800, riskFactor |-> 1700],
    KY |-> [region |-> "Kirkcaldy", basePrice |-> 140000, growthRate |-> 3000, yield |-> 8000, riskFactor |-> 1800],
    PA |-> [region |-> "Paisley", basePrice |-> 155000, growthRate |-> 3400, yield |-> 7600, riskFactor |-> 1600],
    PH |-> [region |-> "Perth", basePrice |-> 185000, growthRate |-> 3600, yield |-> 6900, riskFactor |-> 1400],
    CF |-> [region |-> "Cardiff", basePrice |-> 280000, growthRate |-> 4200, yield |-> 5500, riskFactor |-> 1200],
    SA |-> [region |-> "Swansea", basePrice |-> 180000, growthRate |-> 3800, yield |-> 6800, riskFactor |-> 1500],
    NP |-> [region |-> "Newport", basePrice |-> 220000, growthRate |-> 4000, yield |-> 6100, riskFactor |-> 1300],
    LL |-> [region |-> "Llandudno", basePrice |-> 200000, growthRate |-> 3500, yield |-> 6500, riskFactor |-> 1400],
    SY |-> [region |-> "Shrewsbury", basePrice |-> 240000, growthRate |-> 3700, yield |-> 5900, riskFactor |-> 1200],
    NE |-> [region |-> "Newcastle", basePrice |-> 190000, growthRate |-> 4300, yield |-> 6900, riskFactor |-> 1400],
    SR |-> [region |-> "Sunderland", basePrice |-> 150000, growthRate |-> 4100, yield |-> 7800, riskFactor |-> 1700],
    DL |-> [region |-> "Darlington", basePrice |-> 165000, growthRate |-> 3900, yield |-> 7200, riskFactor |-> 1500],
    TS |-> [region |-> "Cleveland", basePrice |-> 145000, growthRate |-> 4000, yield |-> 8100, riskFactor |-> 1800],
    DH |-> [region |-> "Durham", basePrice |-> 175000, growthRate |-> 4200, yield |-> 7000, riskFactor |-> 1400],
    BS |-> [region |-> "Bristol", basePrice |-> 380000, growthRate |-> 4400, yield |-> 4800, riskFactor |-> 1100],
    BA |-> [region |-> "Bath", basePrice |-> 520000, growthRate |-> 3600, yield |-> 3900, riskFactor |-> 950],
    EX |-> [region |-> "Exeter", basePrice |-> 320000, growthRate |-> 4000, yield |-> 5200, riskFactor |-> 1150],
    PL |-> [region |-> "Plymouth", basePrice |-> 220000, growthRate |-> 3800, yield |-> 6100, riskFactor |-> 1300],
    TR |-> [region |-> "Truro", basePrice |-> 280000, growthRate |-> 3500, yield |-> 5800, riskFactor |-> 1200],
    TQ |-> [region |-> "Torquay", basePrice |-> 250000, growthRate |-> 3600, yield |-> 5900, riskFactor |-> 1250],
    BN |-> [region |-> "Brighton", basePrice |-> 480000, growthRate |-> 3900, yield |-> 4200, riskFactor |-> 1050],
    GU |-> [region |-> "Guildford", basePrice |-> 620000, growthRate |-> 3400, yield |-> 3600, riskFactor |-> 900],
    RG |-> [region |-> "Reading", basePrice |-> 450000, growthRate |-> 3700, yield |-> 4100, riskFactor |-> 1000],
    SL |-> [region |-> "Slough", basePrice |-> 420000, growthRate |-> 3800, yield |-> 4300, riskFactor |-> 1050],
    OX |-> [region |-> "Oxford", basePrice |-> 580000, growthRate |-> 3500, yield |-> 3800, riskFactor |-> 950],
    HP |-> [region |-> "High Wycombe", basePrice |-> 480000, growthRate |-> 3600, yield |-> 4000, riskFactor |-> 1000],
    MK |-> [region |-> "Milton Keynes", basePrice |-> 360000, growthRate |-> 4100, yield |-> 4800, riskFactor |-> 1150],
    CB |-> [region |-> "Cambridge", basePrice |-> 580000, growthRate |-> 3500, yield |-> 3800, riskFactor |-> 900],
    NR |-> [region |-> "Norwich", basePrice |-> 260000, growthRate |-> 4000, yield |-> 5700, riskFactor |-> 1200],
    IP |-> [region |-> "Ipswich", basePrice |-> 240000, growthRate |-> 3800, yield |-> 5900, riskFactor |-> 1250],
    PE |-> [region |-> "Peterborough", basePrice |-> 210000, growthRate |-> 4200, yield |-> 6300, riskFactor |-> 1300],
    LU |-> [region |-> "Luton", basePrice |-> 320000, growthRate |-> 4000, yield |-> 5100, riskFactor |-> 1200],
    DE |-> [region |-> "Derby", basePrice |-> 195000, growthRate |-> 4400, yield |-> 6600, riskFactor |-> 1350],
    NN |-> [region |-> "Northampton", basePrice |-> 250000, growthRate |-> 4100, yield |-> 5800, riskFactor |-> 1250],
    DY |-> [region |-> "Dudley", basePrice |-> 200000, growthRate |-> 4600, yield |-> 6500, riskFactor |-> 1400],
    WR |-> [region |-> "Worcester", basePrice |-> 230000, growthRate |-> 4200, yield |-> 6000, riskFactor |-> 1300],
    HU |-> [region |-> "Hull", basePrice |-> 140000, growthRate |-> 4800, yield |-> 8200, riskFactor |-> 1700],
    YO |-> [region |-> "York", basePrice |-> 290000, growthRate |-> 4000, yield |-> 5500, riskFactor |-> 1200],
    HX |-> [region |-> "Halifax", basePrice |-> 165000, growthRate |-> 4500, yield |-> 7100, riskFactor |-> 1500],
    BD |-> [region |-> "Bradford", basePrice |-> 155000, growthRate |-> 4700, yield |-> 7500, riskFactor |-> 1600],
    HD |-> [region |-> "Huddersfield", basePrice |-> 170000, growthRate |-> 4400, yield |-> 7000, riskFactor |-> 1500],
    PR |-> [region |-> "Preston", basePrice |-> 165000, growthRate |-> 4600, yield |-> 7200, riskFactor |-> 1500],
    BB |-> [region |-> "Blackburn", basePrice |-> 140000, growthRate |-> 4800, yield |-> 8000, riskFactor |-> 1700],
    BL |-> [region |-> "Bolton", basePrice |-> 185000, growthRate |-> 4700, yield |-> 6800, riskFactor |-> 1400],
    FY |-> [region |-> "Blackpool", basePrice |-> 130000, growthRate |-> 4300, yield |-> 8500, riskFactor |-> 1900],
    BT |-> [region |-> "Belfast", basePrice |-> 160000, growthRate |-> 4200, yield |-> 7300, riskFactor |-> 1600],
    DEFAULT |-> [region |-> "UK Average", basePrice |-> 280000, growthRate |-> 4000, yield |-> 5500, riskFactor |-> 1200]
  ]

\* this.areaData of UniversalUKPredictor (constructor)
fallbackAreaData ==
  [
    M |-> [region |-> "Manchester", basePrice |-> 280000, growthRate |-> 5200, yield |-> 5800, riskFactor |-> 1300],
    SW |-> [region |-> "London Southwest", basePrice |-> 750000, growthRate |-> 3700, yield |-> 3100, riskFactor |-> 900],
    B |-> [region |-> "Birmingham", basePrice |-> 240000, growthRate |-> 4800, yield |-> 6200, riskFactor |-> 1400],
    L |-> [region |-> "Liverpool", basePrice |-> 180000, growthRate |-> 5500, yield |-> 7100, riskFactor |-> 1600],
    G |-> [region |-> "Glasgow", basePrice |-> 170000, growthRate |-> 3800, yield |-> 7200, riskFactor |-> 1500],
    EH |-> [region |-> "Edinburgh", basePrice |-> 350000, growthRate |-> 4100, yield |-> 5100, riskFactor |-> 1100],
    CF |-> [region |-> "Cardiff", basePrice |-> 280000, growthRate |-> 4200, yield |-> 5500, riskFactor |-> 1200],
    BT |-> [region |-> "Belfast", basePrice |-> 160000, growthRate |-> 4200, yield |-> 7300, riskFactor |-> 1600],
    DEFAULT |-> [region |-> "UK Average", basePrice |-> 280000, growthRate |-> 4000, yield |-> 5500, riskFactor |-> 1200]
  ]

\* s.substring(0, n)
substring0(s, n) == SubSeq(s, 1, IF Len(s) < n THEN Len(s) ELSE n)

\* a sequence of characters as one string
RECURSIVE Join(_)
Join(s) == IF s = <<>> THEN "" ELSE Head(s) \o Join(Tail(s))

\* postcode.replace(/\s+/g, "").toUpperCase()
Cleaned(postcode) == toUpperCase(StripWhitespace(postcode))

\* a lookup that finds every code
HasAreaAlways(table, code) == TRUE

\* "this.areaData[code]" as a condition: the code is a key of the table
HasArea(table, code) == code \in DOMAIN table

\* /^[A-Z]{n}/.test(s)
StartsWithLetters(s, n) == Len(s) >= n /\ \A i \in 1..n : s[i] \in UpperLetters

\* UniversalRealTimePredictor.extractAreaCode
extractAreaCode(postcode) ==
  LET cleaned   == Cleaned(postcode)
      twoLetter == substring0(cleaned, 2)
      oneLetter == substring0(cleaned, 1)
  IN  IF HasArea(areaData, Join(twoLetter)) /\ StartsWithLetters(twoLetter, 2)
        THEN Join(twoLetter)
        ELSE IF HasArea(areaData, Join(oneLetter)) /\ StartsWithLetters(oneLetter, 1)
          THEN Join(oneLetter)
          ELSE "DEFAULT"

\* UniversalUKPredictor.extractAreaCode
fallbackExtractAreaCode(postcode) ==
  LET cleaned   == Cleaned(postcode)
      twoLetter == substring0(cleaned, 2)
      oneLetter == substring0(cleaned, 1)
  IN  IF HasArea(fallbackAreaData, Join(twoLetter))
        THEN Join(twoLetter)
        ELSE IF HasArea(fallbackAreaData, Join(oneLetter))
          THEN Join(oneLetter)
          ELSE "DEFAULT"

\* this.areaData[areaCode] || this.areaData["DEFAULT"]
AreaOf(table, areaCode) ==
  IF areaCode \in DOMAIN table THEN table[areaCode] ELSE table["DEFAULT"]

\* areaCode === "DEFAULT" ? "estimated" : "detailed"
Coverage(areaCode) == IF areaCode = "DEFAULT" THEN "estimated" ELSE "detailed"

\* the strings of length n or less over an alphabet
RECURSIVE StringsOver(_, _)
StringsOver(alphabet, n) ==
  IF n = 0 THEN { <<>> }
  ELSE LET shorter == StringsOver(alphabet, n - 1)
       IN shorter \cup { Append(t, ch) : t \in { u \in shorter : Len(u) = n - 1 },
                                          ch \in alphabet }

SW1A1AA == <<"S", "W", "1", "A", " ", "1", "A", "A">>
ZZ99ZZ == <<"Z", "Z", "9", " ", "9", "Z", "Z">>
\* the strings of the area-code run: every string of at most MaxPrefix
\* characters of a small alphabet, and the two postcodes of the examples
AreaInputs ==
  StringsOver({"S", "W", "s", "E", "Z", "M", "1", " "}, MaxPrefix) \cup {SW1A1AA, ZZ99ZZ}

-----------------------------------------------------------------------------
(* Arithmetic of the engines on numbers Num(v) and NaN, v counting           *)
(* thousandths.  Products with the decimal constants of the code are rounded *)
(* to the nearest thousandth.                                                *)

\* a / b rounded to the nearest integer, halves upwards (b > 0)
RoundDiv(a, b) == (2 * a + b) \div (2 * b)

\* a + b, a - b; NaN when an operand is NaN
Add(a, b) == IF a.nan \/ b.nan THEN NaN ELSE Num(a.v + b.v)
Sub(a, b) == IF a.nan \/ b.nan THEN NaN ELSE Num(a.v - b.v)

\* a * (n / d) for a decimal constant n / d of the code
Times(a, n, d) == IF a.nan THEN NaN ELSE Num(RoundDiv(a.v * n, d))

\* a > b, a < b: false when an operand is NaN
Gt(a, b) == ~a.nan /\ ~b.nan /\ a.v > b.v
Lt(a, b) == ~a.nan /\ ~b.nan /\ a.v < b.v

\* Math.max, Math.min: NaN when an operand is NaN
MathMax(a, b) == IF a.nan \/ b.nan THEN NaN ELSE IF a.v >= b.v THEN a ELSE b
MathMin(a, b) == IF a.nan \/ b.nan THEN NaN ELSE IF a.v <= b.v THEN a ELSE b

\* Math.round(a * k) / k for a step of unit thousandths
MathRound(a, unit) == IF a.nan THEN NaN ELSE Num(RoundDiv(a.v, unit) * unit)

\* a || b: NaN and 0 are falsy
OrElse(a, b) == IF a.nan \/ a.v = 0 THEN b ELSE a

\* Math.pow(base / 100, k) in millionths
RECURSIVE PowMillionths(_, _)
PowMillionths(base, k) ==
  IF k = 0 THEN 1000000 ELSE RoundDiv(PowMillionths(base, k - 1) * base, 100)

\* a * Math.pow(base / 100, k)
Decay(a, base, k) == Times(a, RoundDiv(PowMillionths(base, k), 100), 10000)

\* the integer part of Math.sqrt(x), by bisection on lo..hi
RECURSIVE SqrtBetween(_, _, _)
SqrtBetween(x, lo, hi) ==
  IF lo >= hi THEN lo
  ELSE LET mid == (lo + hi + 1) \div 2
       IN  IF mid * mid <= x THEN SqrtBetween(x, mid, hi) ELSE SqrtBetween(x, lo, mid - 1)

\* values.reduce((sum, val) => sum + val, 0)
RECURSIVE SumNum(_)
SumNum(values) == IF values = <<>> THEN Num(0) ELSE Add(Head(values), SumNum(Tail(values)))

-----------------------------------------------------------------------------
(* UniversalRealTimePredictor.  The fields of "this" are the record d:       *)
(*   economicData    [present, baseRate, inflation, unemploymentRate,        *)
(*                    gdpGrowth, dataSources]                                *)
(*   recentSales     [present, val]                                          *)
(*   crimeData       a crime snapshot, or NullCrime                          *)
(*   enhancedMetrics [averagePrice, priceGrowth, propertyTypes, crimeImpact] *)
(* Prices are pounds, every other number is in thousandths.                  *)

\* the constructor keeping recentSales as given
SalesAsGiven(recentSales) == recentSales

\* enhancedData.recentSales || []
SalesOrEmpty(recentSales) ==
  IF recentSales.present THEN recentSales ELSE [present |-> TRUE, val |-> <<>>]

\* constructor(enhancedData)
UniversalRealTimePredictor(enhancedData) ==
  [ economicData    |-> enhancedData.economicData,
    recentSales     |-> SalesOrEmpty(enhancedData.recentSales),
    crimeData       |-> enhancedData.crimeData,
    enhancedMetrics |-> enhancedData.enhancedMetrics ]

\* this.recentSales.length
SalesLength(d) == IF d.recentSales.present THEN Len(d.recentSales.val) ELSE 0

\* "if (this.economicData)"
HasEconomic(d) == d.economicData.present

\* the guard without its test of the source
HasLiveCrimeUnchecked(d) == ~d.crimeData.isNull

\* "this.crimeData && this.crimeData.source !== "fallback""
HasLiveCrime(d) == ~d.crimeData.isNull /\ d.crimeData.source # "fallback"

\* this.enhancedMetrics.crimeImpact?.safetyScore || 5
SafetyScore(d) ==
  IF d.enhancedMetrics.crimeImpact.present
    THEN OrElse(d.enhancedMetrics.crimeImpact.safetyScore, Num(5000))
    ELSE Num(5000)

\* getDataQualityScore
getDataQualityScore(d) ==
  LET sources  == d.economicData.dataSources
      live     == IF HasEconomic(d)
                    THEN Cardinality({ f \in DOMAIN sources : sources[f] = "live" })
                    ELSE 0
      sales    == IF SalesLength(d) > 0 THEN MathMin(Num(SalesLength(d) * 100), Num(150)).v
                  ELSE 0
      crime    == IF HasLiveCrime(d) THEN 50 ELSE 0
  IN  MathMin(Num(700 + live * 50 + sales + crime), Num(1000))

\* the growth of the area profile whatever the metrics hold
GrowthOfTheAreaOnly(d, areaCode, year) == Num(AreaOf(areaData, areaCode).growthRate)

\* calculateUniversalGrowth
calculateUniversalGrowth(d, areaCode, year) ==
  IF d.enhancedMetrics.priceGrowth.present
    THEN Decay(d.enhancedMetrics.priceGrowth.v, 90, year - 1)
    ELSE Num(AreaOf(areaData, areaCode).growthRate)

\* calculateRealEconomicAdjustment
calculateRealEconomicAdjustment(d, year) ==
  IF ~HasEconomic(d) THEN Num(0)
  ELSE LET e                  == d.economicData
           rateImpact         == Times(Sub(Num(6000), e.baseRate), 4, 10)
           inflationImpact    == Times(Sub(e.inflation, Num(2500)), 25, 100)
           gdpImpact          == Times(e.gdpGrowth, 6, 10)
           unemploymentImpact == Times(Sub(Num(5000), e.unemploymentRate), 2, 10)
       IN  Decay(Add(Add(Sub(rateImpact, inflationImpact), gdpImpact), unemploymentImpact),
                 85, year - 1)

\* calculateMarketConditions
calculateMarketConditions(d, year) ==
  LET crimeAdjustment ==
        IF HasLiveCrime(d) THEN Times(Sub(SafetyScore(d), Num(5000)), 2, 10) ELSE Num(0)
      activityAdjustment ==
        IF SalesLength(d) > 0 THEN MathMin(Num(SalesLength(d) * 100), Num(500)) ELSE Num(0)
  IN  Add(crimeAdjustment, activityAdjustment)

\* the values (Math.random() - 0.5) * 0.3 can take
JitterValues == {-150, 0, 149}

\* calculateLocalFactors, with the value random of (Math.random() - 0.5) * 0.3;
\* a type that is no key of propertyTypes counts 0
calculateLocalFactors(d, postcode, year, random) ==
  LET types           == d.enhancedMetrics.propertyTypes
      areaCode        == extractAreaCode(postcode)
      isLondon        == areaCode \in {"E", "EC", "N", "NW", "SE", "SW", "W", "WC"}
      highGrowthNorth == areaCode \in {"M", "L", "LS", "S", "NE"}
      scotland        == areaCode \in {"G", "EH", "AB", "DD"}
      wales           == areaCode \in {"CF", "SA", "NP"}
      propertyMixAdjustment ==
        IF ~types.present THEN 0
        ELSE (IF types.F > types.D + types.S + types.T THEN -300 ELSE 0)
             + (IF types.D > 0 THEN 200 ELSE 0)
      areaSpecificAdjustment ==
        (IF isLondon THEN 500 ELSE 0) + (IF highGrowthNorth THEN 400 ELSE 0)
        + (IF scotland THEN 200 ELSE 0) + (IF wales THEN 300 ELSE 0)
  IN  Num(propertyMixAdjustment + areaSpecificAdjustment + random)

\* calculateCurrentYield
calculateCurrentYield(basePrice, areaCode) ==
  LET baseYield       == AreaOf(areaData, areaCode).yield
      priceAdjustment == IF basePrice > 500000 THEN -1500
                         ELSE IF basePrice < 200000 THEN 1500 ELSE 0
  IN  MathMax(Num(baseYield + priceAdjustment), Num(2000))

\* calculateYieldChange
calculateYieldChange(d, priceGrowth, year) ==
  LET baseYieldChange      == Times(priceGrowth, -1, 10)
      rentGrowthAdjustment == Times(priceGrowth, 3, 10)
      rateImpact           == IF HasEconomic(d)
                                THEN Times(Sub(d.economicData.baseRate, Num(4000)), 1, 10)
                                ELSE Num(0)
  IN  Times(Add(Add(baseYieldChange, rentGrowthAdjustment), rateImpact), 1, year)

\* the factor applied for the area coverage, swapped
CoverageFactorSwapped(areaCode) == IF areaCode = "DEFAULT" THEN 950 ELSE 750

\* "baseConfidence *= 0.75" for DEFAULT, "baseConfidence *= 0.95" otherwise
CoverageFactor(areaCode) == IF areaCode = "DEFAULT" THEN 750 ELSE 950

\* the bound of the sales bonus of the confidence
ManySales(n) == n > 5

\* calculateUniversalConfidence, computed in millionths
calculateUniversalConfidence(d, year, areaCode) ==
  LET base    == (900 - year * 50) * getDataQualityScore(d).v
      covered == RoundDiv(base * CoverageFactor(areaCode), 1000)
      sales   == IF ManySales(SalesLength(d)) THEN 50000 ELSE 0
      rate    == IF HasEconomic(d) /\ d.economicData.dataSources.bankRate = "live"
                   THEN 30000 ELSE 0
      total   == covered + sales + rate
      capped  == IF total > 950000 THEN 950000 ELSE total
  IN  IF capped < 500000 THEN 500000 ELSE capped

\* a loop that stops one year early
LoopContinuesShort(year) == year < 5

\* "year <= 5" of the loops of both generatePredictions
LoopContinues(year) == year <= 5

\* the body of the loop of generatePredictions for one year, and the years
\* after it; run holds the values computed before the loop, the year the clock
\* shows (getFullYear) and the random values of the five calls of
\* calculateLocalFactors
RECURSIVE PredictYears(_, _, _, _, _)
PredictYears(d, run, year, currentPrice, predictions) ==
  IF ~LoopContinues(year) THEN predictions
  ELSE
    LET baseGrowth     == calculateUniversalGrowth(d, run.areaCode, year)
        economic       == calculateRealEconomicAdjustment(d, year)
        market         == calculateMarketConditions(d, year)
        localFactors   == calculateLocalFactors(d, run.postcode, year, run.random[year])
        totalGrowth    == Decay(Add(Add(Add(baseGrowth, economic), market), localFactors),
                                94, year - 1)
        \* currentPrice *= 1 + totalGrowth / 100, to the pound
        price          ==
          IF currentPrice.nan \/ totalGrowth.nan THEN NaN
          ELSE Num(currentPrice.v
                   + RoundDiv((currentPrice.v \div 1000) * totalGrowth.v, 100)
                   + RoundDiv((currentPrice.v % 1000) * totalGrowth.v, 100000))
        yieldChange    == calculateYieldChange(d, totalGrowth, year)
        predictedYield == MathMax(Add(run.currentYield, yieldChange), Num(1500))
        confidence     == calculateUniversalConfidence(d, year, run.areaCode)
        entry ==
          [ year               |-> run.getFullYear + year,
            predictedPrice     |-> price,
            priceChangePercent |-> MathRound(totalGrowth, 10),
            predictedYield     |-> MathRound(predictedYield, 10),
            confidence         |-> Num(RoundDiv(confidence, 10000) * 10),
            dataQuality        |-> getDataQualityScore(d),
            areaCoverage       |-> Coverage(run.areaCode) ]
    IN  PredictYears(d, run, year + 1, price, Append(predictions, entry))

\* UniversalRealTimePredictor.generatePredictions
generatePredictions(d, postcode, getFullYear, random) ==
  LET areaCode  == extractAreaCode(postcode)
      \* this.enhancedMetrics.averagePrice || areaData.basePrice
      averagePrice == d.enhancedMetrics.averagePrice
      basePrice == IF averagePrice.kind = "number" /\ averagePrice.v # 0
                     THEN averagePrice.v
                     ELSE AreaOf(areaData, areaCode).basePrice
      run == [ postcode     |-> postcode,
               areaCode     |-> areaCode,
               currentYield |-> calculateCurrentYield(basePrice, areaCode),
               getFullYear  |-> getFullYear,
               random       |-> random ]
  IN  PredictYears(d, run, 1, Num(basePrice), <<>>)

\* the sum of the squares of values / 10
RECURSIVE SumSquares(_)
SumSquares(values) ==
  IF values = <<>> THEN 0
  ELSE (Head(values).v \div 10) * (Head(values).v \div 10) + SumSquares(Tail(values))

\* calculateVolatility: the standard deviation of values given in hundredths,
\* sqrt(n * sum(v^2) - sum(v)^2) / n; NaN for no values (0 / 0)
calculateVolatility(values) ==
  LET n   == Len(values)
      sum == SumNum(values)
  IN  IF n = 0 \/ sum.nan THEN NaN
      ELSE LET total == sum.v \div 10
           IN  Num(RoundDiv(SqrtBetween(100 * (n * SumSquares(values) - total * total), 0, 46340),
                          n))

\* "avgGrowth > x", "avgGrowth < x" for the mean of values; false for NaN
MeanAbove(values, x) == Len(values) > 0 /\ Gt(SumNum(values), Num(Len(values) * x))
MeanBelow(values, x) == Len(values) > 0 /\ Lt(SumNum(values), Num(Len(values) * x))

\* UniversalRealTimePredictor.calculateRisk
calculateRisk(d, predictions, postcode) ==
  LET areaCode   == extractAreaCode(postcode)
      area       == AreaOf(areaData, areaCode)
      changes    == [i \in 1..Len(predictions) |-> predictions[i].priceChangePercent]
      volatility == calculateVolatility(changes)
      e          == d.economicData
      risk ==
        Add(Num(5000 + (area.riskFactor - 1000) * 3
                + (IF MeanAbove(changes, 6000) THEN 1500 ELSE 0)
                + (IF MeanBelow(changes, 1000) THEN 2000 ELSE 0)
                + (IF HasEconomic(d) /\ Gt(e.baseRate, Num(6000)) THEN 1000 ELSE 0)
                + (IF HasEconomic(d) /\ Gt(e.inflation, Num(5000)) THEN 500 ELSE 0)
                + (IF HasEconomic(d) /\ Gt(e.unemploymentRate, Num(6000)) THEN 500 ELSE 0)
                + (IF ~d.crimeData.isNull /\ d.crimeData.crimeRate > 500 THEN 1000 ELSE 0)
                + (1000 - getDataQualityScore(d).v) * 2
                + (IF areaCode = "DEFAULT" THEN 500 ELSE 0)),
            Times(volatility, 1, 2))
      rounded == IF risk.nan THEN NaN ELSE Num(RoundDiv(risk.v, 1000))
  IN  MathMin(MathMax(rounded, Num(1)), Num(10))

\* the items a condition adds to the reasoning list
Say(cond, text) == IF cond THEN <<text>> ELSE <<>>

\* the recommendation label for a score in thousandths
Ladder(score) ==
  IF score >= 7500 THEN "STRONG BUY"
  ELSE IF score >= 6000 THEN "BUY"
  ELSE IF score <= 3000 THEN "SELL"
  ELSE IF score <= 2000 THEN "STRONG SELL"
  ELSE "HOLD"

\* UniversalRealTimePredictor.generateRecommendation; riskScore is a whole
\* number or NaN
generateRecommendation(d, predictions, riskScore, postcode) ==
  LET areaCode    == extractAreaCode(postcode)
      area        == AreaOf(areaData, areaCode)
      changes     == [i \in 1..Len(predictions) |-> predictions[i].priceChangePercent]
      yields      == [i \in 1..Len(predictions) |-> predictions[i].predictedYield]
      e           == d.economicData
      strong      == MeanAbove(changes, 5000)
      moderate    == ~strong /\ MeanAbove(changes, 3000)
      limited     == ~strong /\ ~moderate /\ MeanBelow(changes, 1000)
      excellent   == MeanAbove(yields, 6000)
      good        == ~excellent /\ MeanAbove(yields, 4500)
      lower       == ~excellent /\ ~good /\ MeanBelow(yields, 3000)
      lowRisk     == Lt(riskScore, Num(4))
      highRisk    == ~lowRisk /\ Gt(riskScore, Num(7))
      lowRate     == HasEconomic(d) /\ Lt(e.baseRate, Num(4000))
      highRate    == HasEconomic(d) /\ ~lowRate /\ Gt(e.baseRate, Num(6000))
      stable      == HasEconomic(d) /\ Lt(e.inflation, Num(3000))
      inflated    == HasEconomic(d) /\ ~stable /\ Gt(e.inflation, Num(5000))
      active      == SalesLength(d) > 10
      quiet       == ~active /\ SalesLength(d) < 3
      safe        == HasLiveCrime(d) /\ Gt(SafetyScore(d), Num(7000))
      unsafe      == HasLiveCrime(d) /\ ~safe /\ Lt(SafetyScore(d), Num(3000))
      dataQuality == getDataQualityScore(d)
      score ==
        5000
        + (IF strong THEN 2000 ELSE IF moderate THEN 1000 ELSE IF limited THEN -2000 ELSE 0)
        + (IF excellent THEN 2000 ELSE IF good THEN 1000 ELSE IF lower THEN -1000 ELSE 0)
        + (IF lowRisk THEN 1000 ELSE IF highRisk THEN -2000 ELSE 0)
        + (IF lowRate THEN 500 ELSE IF highRate THEN -500 ELSE 0)
        + (IF inflated THEN -500 ELSE 0)
        + (IF active THEN 300 ELSE IF quiet THEN -200 ELSE 0)
        + (IF unsafe THEN -500 ELSE 0)
      reasoning ==
        Say(strong, "Strong growth potential identified")
        \o Say(moderate, "Moderate growth expected")
        \o Say(limited, "Limited growth potential")
        \o Say(excellent, "Excellent rental yield opportunity")
        \o Say(good, "Good rental yield potential")
        \o Say(lower, "Lower rental yield expected")
        \o Say(lowRisk, "Low risk investment")
        \o Say(highRisk, "Higher risk investment")
        \o Say(~lowRisk /\ ~highRisk, "Moderate risk level")
        \o Say(lowRate, "Favorable interest rate environment")
        \o Say(highRate, "High interest rate headwind")
        \o Say(stable, "Stable inflation environment")
        \o Say(inflated, "High inflation concern")
        \o Say(areaCode \in {"E", "EC", "N", "NW", "SE", "SW", "W", "WC"}, "London market premium")
        \o Say(areaCode \in {"M", "L", "LS", "S"}, "Northern powerhouse growth area")
        \o Say(areaCode \in {"G", "EH"}, "Major Scottish city market")
        \o Say(areaCode \in {"CF", "SA"}, "Welsh capital region")
        \o Say(active, "Active local market with real sales data")
        \o Say(quiet, "Limited recent market activity")
        \o Say(safe, "Low crime area advantage")
        \o Say(unsafe, "Higher crime area concern")
        \o Say(dataQuality.v > 800, "Based on comprehensive real-time analysis")
        \o Say(dataQuality.v <= 800 /\ areaCode = "DEFAULT", "Estimate based on UK averages")
        \o Say(dataQuality.v <= 800 /\ areaCode # "DEFAULT", "Based on detailed area analysis")
  IN  [ recommendation  |-> Ladder(score),
        score           |-> Num(RoundDiv(score, 100) * 100),
        reasoning       |-> reasoning,
        confidence      |-> IF riskScore.nan THEN NaN
                            ELSE Num(RoundDiv((10 - riskScore.v) * 8000 + dataQuality.v * 20,
                                              1000)),
        dataQuality     |-> Num(RoundDiv(dataQuality.v, 10)),
        areaSpecific    |-> area.region,
        areaCoverage    |-> Coverage(areaCode),
        economicContext |-> IF HasEconomic(d) THEN "rates" ELSE "Economic data unavailable" ]

\* UniversalRealTimePredictor.getAreaInfo
getAreaInfo(d, postcode) ==
  LET areaCode == extractAreaCode(postcode)
  IN  [ areaCode    |-> areaCode,
        region      |-> AreaOf(areaData, areaCode).region,
        coverage    |-> Coverage(areaCode),
        dataQuality |-> getDataQualityScore(d) ]

-----------------------------------------------------------------------------
(* UniversalUKPredictor, the fallback engine *)

RECURSIVE FallbackYears(_, _, _, _)
FallbackYears(area, getFullYear, year, predictions) ==
  IF ~LoopContinues(year) THEN predictions
  ELSE FallbackYears(area, getFullYear, year + 1,
         Append(predictions,
           [ year               |-> getFullYear + year,
             predictedPrice     |-> Num(area.basePrice + year * 15000),
             priceChangePercent |-> Decay(Num(area.growthRate), 90, year - 1),
             predictedYield     |-> Num(area.yield),
             confidence         |-> Num(700) ]))

\* UniversalUKPredictor.generatePredictions
fallbackGeneratePredictions(postcode, getFullYear) ==
  FallbackYears(AreaOf(fallbackAreaData, fallbackExtractAreaCode(postcode)),
                getFullYear, 1, <<>>)

\* UniversalUKPredictor.calculateRisk: Math.round(areaData.riskFactor * 5)
fallbackCalculateRisk(predictions, postcode) ==
  Num(RoundDiv(AreaOf(fallbackAreaData, fallbackExtractAreaCode(postcode)).riskFactor * 5,
               1000))

\* UniversalUKPredictor.generateRecommendation
fallbackGenerateRecommendation(predictions, riskScore, postcode) ==
  LET area == AreaOf(fallbackAreaData, fallbackExtractAreaCode(postcode))
  IN  [ recommendation |-> "HOLD",
        score          |-> Num(5000),
        reasoning      |-> << "Fallback estimates for " \o area.region >>,
        confidence     |-> Num(70),
        areaSpecific   |-> area.region ]

\* UniversalUKPredictor.getAreaInfo
fallbackGetAreaInfo(postcode) ==
  LET areaCode == fallbackExtractAreaCode(postcode)
  IN  [ areaCode |-> areaCode,
        region   |-> AreaOf(fallbackAreaData, areaCode).region,
        coverage |-> "fallback" ]

-----------------------------------------------------------------------------
(* parseLandRegistryCSV.  Strings are sequences of characters; a payload is  *)
(* the sequence of its lines, csvData.split("\n").  A record keeps the       *)
(* fields that are read afterwards: price, date and propertyType.            *)

\* "sales.length < 50" and "parts.length >= 12"
SalesCap == 50
MinParts == 12

\* String.prototype.split for a separator of one character
RECURSIVE Split(_, _)
Split(s, sep) ==
  IF \A i \in 1..Len(s) : s[i] # sep THEN <<s>>
  ELSE LET i == CHOOSE i \in 1..Len(s) : s[i] = sep /\ \A j \in 1..(i - 1) : s[j] # sep
       IN  <<SubSeq(s, 1, i - 1)>> \o Split(SubSeq(s, i + 1, Len(s)), sep)

\* String.prototype.trim
Trim(s) ==
  LET kept == { i \in 1..Len(s) : ~IsSpace(s[i]) }
  IN  IF kept = {} THEN <<>>
      ELSE SubSeq(s, CHOOSE i \in kept : \A j \in kept : i <= j,
                     CHOOSE i \in kept : \A j \in kept : i >= j)

\* the number a string of decimal digits denotes
RECURSIVE DigitsValue(_)
DigitsValue(s) ==
  IF s = <<>> THEN 0
  ELSE DigitsValue(SubSeq(s, 1, Len(s) - 1)) * 10
       + (CHOOSE k \in 0..9 :
            <<"0", "1", "2", "3", "4", "5", "6", "7", "8", "9">>[k + 1] = s[Len(s)])

\* parseInt(s): leading white space and a sign are skipped, the longest prefix
\* of digits is the value, and NaN is returned (nothing is thrown) when there
\* is no digit there
parseInt(s) ==
  LET t      == Trim(s)
      signed == t # <<>> /\ t[1] \in {"+", "-"}
      body   == IF signed THEN Tail(t) ELSE t
      n      == CHOOSE k \in 0..Len(body) :
                  /\ \A i \in 1..k : body[i] \in Digits
                  /\ k = Len(body) \/ body[k + 1] \notin Digits
      value  == DigitsValue(SubSeq(body, 1, n))
  IN  IF n = 0 THEN NaN
      ELSE Num(IF signed /\ t[1] = "-" THEN 0 - value ELSE value)

\* new Date(s) for the date strings of the price-paid data, "YYYY-MM-DD" or
\* "YYYY-MM-DD HH:MM": the time as <<year, month, day, hour, minute>>, and an
\* invalid date (NaN) for the empty string and for a string of another form.
\* A day is taken as valid up to the length of its month.
ParseDate(s) ==
  LET Is(i, ch)  == i <= Len(s) /\ s[i] = ch
      AreDigits(I) == \A i \in I : i <= Len(s) /\ s[i] \in Digits
      Value(i, j) == DigitsValue(SubSeq(s, i, j))
      leap  == Value(1, 4) % 4 = 0 /\ (Value(1, 4) % 100 # 0 \/ Value(1, 4) % 400 = 0)
      DaysIn(month) == IF month = 2 THEN (IF leap THEN 29 ELSE 28)
                       ELSE IF month \in {4, 6, 9, 11} THEN 30 ELSE 31
      day   == AreDigits({1, 2, 3, 4, 6, 7, 9, 10}) /\ Is(5, "-") /\ Is(8, "-")
               /\ Value(6, 7) \in 1..12 /\ Value(9, 10) \in 1..DaysIn(Value(6, 7))
      clock == AreDigits({12, 13, 15, 16}) /\ Is(11, " ") /\ Is(14, ":")
               /\ Value(12, 13) \in 0..23 /\ Value(15, 16) \in 0..59
  IN  IF day /\ Len(s) = 10
        THEN [nan |-> FALSE, v |-> <<Value(1, 4), Value(6, 7), Value(9, 10), 0, 0>>]
      ELSE IF day /\ clock /\ Len(s) = 16
        THEN [ nan |-> FALSE,
               v   |-> <<Value(1, 4), Value(6, 7), Value(9, 10), Value(12, 13),
                         Value(15, 16)>> ]
      ELSE [nan |-> TRUE, v |-> <<0, 0, 0, 0, 0>>]

\* the sign of "new Date(b.date) - new Date(a.date)", the comparator of the
\* sort: "nan" when a date is invalid
CompareDates(a, b) ==
  LET ta == ParseDate(a.date)
      tb == ParseDate(b.date)
      After(x, y) == \E k \in 1..5 : x[k] > y[k] /\ \A j \in 1..(k - 1) : x[j] = y[j]
  IN  IF ta.nan \/ tb.nan THEN "nan"
      ELSE IF After(ta.v, tb.v) THEN "negative"
      ELSE IF After(tb.v, ta.v) THEN "positive"
      ELSE "zero"

\* the stable sort of sales with the comparator, by insertion: a record goes
\* behind the records it is not to precede (a result of NaN counts as 0)
RECURSIVE StableSort(_)
StableSort(sales) ==
  IF sales = <<>> THEN <<>>
  ELSE LET n      == Len(sales)
           sorted == StableSort(SubSeq(sales, 1, n - 1))
           k      == Cardinality({ i \in 1..(n - 1) :
                                     CompareDates(sales[n], sorted[i]) # "negative" })
       IN  SubSeq(sorted, 1, k) \o <<sales[n]>> \o SubSeq(sorted, k + 1, n - 1)

\* the results Array.prototype.sort can give.  The comparator is consistent
\* when no date is invalid, or when all results are 0 or NaN: the sort is then
\* the stable sort.  Otherwise (an invalid date among dates that differ) the
\* comparator is not consistent and the order is implementation-defined: any
\* permutation of the records.
SortOutcomes(sales) ==
  LET n     == Len(sales)
      signs == { CompareDates(sales[i], sales[j]) : i, j \in 1..n }
  IN  IF "nan" \notin signs \/ signs \subseteq {"nan", "zero"}
        THEN { StableSort(sales) }
        ELSE { [i \in 1..n |-> sales[p[i]]] :
                 p \in { q \in [1..n -> 1..n] : \A i, j \in 1..n : q[i] = q[j] => i = j } }

\* parseLandRegistryCSV on the lines of csvData: the records before the sort
\* (the loop starts at line 1, after the header, and ends at 50 records), and
\* the results the sort can give
parseLandRegistryCSV(lines) ==
  LET Unquote(s) == SelectSeq(s, LAMBDA ch : ch # "\"")
      Parts(i)   == Split(Trim(lines[i]), ",")
      Pushed(i)  == Trim(lines[i]) # <<>> /\ Len(Parts(i)) >= MinParts
      rows       == SelectSeq([i \in 1..(Len(lines) - 1) |-> i + 1], Pushed)
      Record(i)  == Sale(parseInt(Unquote(Parts(i)[2])), Unquote(Parts(i)[3]),
                         Join(Unquote(Parts(i)[5])))
      kept       == IF Len(rows) < SalesCap THEN Len(rows) ELSE SalesCap
  IN  SortOutcomes([k \in 1..kept |-> Record(rows[k])])

\* the payloads given to the parser: a header and up to MaxRows lines, each a
\* record line (three dates, the last with quoted fields), a record line with
\* a price that is no number, one with an empty date, one with the price 0, a
\* line of three fields or a blank line; and a header with n record lines of
\* increasing dates, the first three with a lower price, n around the cap
MaxRows == 3
ParserInputs ==
  LET Commas(fields) ==
        LET RECURSIVE Glue(_)
            Glue(fs) == IF Len(fs) = 1 THEN fs[1]
                        ELSE fs[1] \o <<",">> \o Glue(Tail(fs))
        IN  Glue(fields)
      Quoted(s) == <<"\"">> \o s \o <<"\"">>
      Line(price, date, type) ==
        Commas(<< <<"i", "d">>, price, date, <<"M", "1">>, type, <<"N">>, <<"F">>,
                  <<"1">>, <<>>, <<"R", "D">>, <<>>, <<"T">> >>)
      header  == Commas(<< <<"i", "d">>, <<"p", "r", "i", "c", "e">> >>)
      d2024   == <<"2", "0", "2", "4", "-", "0", "3", "-", "0", "1">>
      d2020   == <<"2", "0", "2", "0", "-", "0", "1", "-", "1", "5">>
      d2022   == <<"2", "0", "2", "2", "-", "0", "6", "-", "0", "9">>
      p250    == <<"2", "5", "0", "0", "0", "0">>
      p180    == <<"1", "8", "0", "0", "0", "0">>
      options ==
        { Line(p250, d2024, <<"F">>),
          <<" ">> \o Line(p180, d2020, <<"D">>),
          Line(Quoted(p180), Quoted(d2022), Quoted(<<"S">>)),
          Line(<<"a", "b", "c">>, d2022, <<"T">>),
          Line(p250, <<>>, <<"F">>),
          Line(<<"0">>, d2024, <<"F">>),
          Commas(<< <<"i", "d">>, p250, d2024 >>),
          <<" ", " ">> }
      Dated(i) ==
        LET digit == <<"0", "1", "2", "3", "4", "5", "6", "7", "8", "9">>
        IN  <<"2", "0", digit[(i \div 10) + 1], digit[(i % 10) + 1],
              "-", "0", "1", "-", "0", "1">>
      Long(n) == <<header>> \o [i \in 1..n |-> Line(IF i <= 3 THEN p180 ELSE p250,
                                                    Dated(i), <<"F">>)]
  IN  { <<header>> \o rest : rest \in UNION { [1..n -> options] : n \in 0..MaxRows } }
      \cup { Long(n) : n \in {SalesCap - 1, SalesCap, SalesCap + 1, SalesCap + 10} }

-----------------------------------------------------------------------------
(* Inputs of the engine runs *)

\* The data an engine run is given.  A real-time run is given what
\* getEnhancedPropertyData builds (derived) and, beyond it, every combination of
\* present and absent parts; the fallback engine is given the postcode only.
\*   economicData  undefined, or the record of getAllEconomicData (which holds
\*                 hundredths) when the fetchers in failed reject and the others
\*                 fulfil, or that record with baseRate NaN, labelled "live":
\*                 getBankOfEnglandBaseRate returns parseFloat(parts[1]) whatever
\*                 it is
\*   recentSales   undefined, or n sales, newest first, alternately detached and
\*                 flats, n on both sides of every comparison of the engine
\*   crimeFetch    how the crime data came about: no coordinates, the police
\*                 source failed, or it answered with n crimes
\*   getFullYear   the year the clock shows during the run
\*   random        the values of (Math.random() - 0.5) * 0.3 of the five years
EngineInputs ==
  LET absentEconomic ==
        [ present |-> FALSE, baseRate |-> NaN, inflation |-> NaN,
          unemploymentRate |-> NaN, gdpGrowth |-> NaN,
          dataSources |-> getFallbackEconomicData.dataSources ]
      SettledWith(failed) ==
        [ f \in EconFetchers |->
            IF f \in failed THEN [st |-> "rejected", key |-> <<f>>, val |-> 0]
            ELSE [ st |-> "fulfilled", key |-> <<f>>,
                   val |-> CHOOSE v \in LiveValues(f) : TRUE ] ]
      AsNumbers(economic) ==
        [ present          |-> TRUE,
          baseRate         |-> Num(economic.baseRate * 10),
          inflation        |-> Num(economic.inflation * 10),
          unemploymentRate |-> Num(economic.unemploymentRate * 10),
          gdpGrowth        |-> Num(economic.gdpGrowth * 10),
          dataSources      |-> economic.dataSources ]
      economicOptions ==
        { absentEconomic }
        \cup { AsNumbers(getAllEconomicData(SettledWith(failed))) :
                 failed \in { {}, {"bankRate"}, EconFetchers } }
        \cup { [AsNumbers(getAllEconomicData(SettledWith({}))) EXCEPT !.baseRate = NaN] }
      SalesOf(n) ==
        [ i \in 1..n |->
            Sale(Num(260000 - i * 1000),
                 <<"2", "0", "2", "4", "-", "0", "3", "-", "0", "1">>,
                 IF i % 2 = 0 THEN "F" ELSE "D") ]
      noSales == [present |-> FALSE, val |-> <<>>]
      salesOptions ==
        { noSales } \cup { [present |-> TRUE, val |-> SalesOf(n)] : n \in {0, 1, 5, 6, 11} }
      noCrimeFetch == [res |-> "none", n |-> 0]
      crimeFetches ==
        { noCrimeFetch, [res |-> "failed", n |-> 0],
          [res |-> "ok", n |-> 3], [res |-> "ok", n |-> 50] }
      CrimeDataOf(fetch) ==
        IF fetch.res = "none" THEN NullCrime
        ELSE FetcherOutcome("crime", [st |-> "primary", key |-> <<>>, val |-> 0],
                            fetch.res = "ok", fetch.n).task.val
      MetricsOf(metrics) ==
        [ averagePrice  |-> metrics.averagePrice,
          priceGrowth   |-> metrics.priceGrowth,
          propertyTypes |-> metrics.propertyTypes,
          crimeImpact   |-> metrics.crimeImpact ]
      anyMetrics ==
        [ averagePrice  : { [kind |-> "absent", v |-> 0], [kind |-> "number", v |-> 300000] },
          priceGrowth   : { [present |-> FALSE, v |-> Num(0)],
                            [present |-> TRUE, v |-> Num(6000)] },
          propertyTypes : { [present |-> FALSE, F |-> 0, D |-> 0, S |-> 0, T |-> 0],
                            [present |-> TRUE, F |-> 3, D |-> 0, S |-> 1, T |-> 0] },
          crimeImpact   : { [present |-> FALSE, safetyScore |-> Num(0)],
                            [present |-> TRUE, safetyScore |-> Num(2000)] } ]
      postcodes == { SW1A1AA, ZZ99ZZ, <<"M", "1">>, <<"n", "p", "2", "0">> }
      years     == {2026, 2027}
      realTime  ==
        { [ engine          |-> "realtime",
            postcode        |-> postcode,
            getFullYear     |-> getFullYear,
            random          |-> [year \in 1..5 |-> random],
            economicData    |-> economicData,
            recentSales     |-> recentSales,
            crimeFetch      |-> crimeFetch,
            crimeData       |-> CrimeDataOf(crimeFetch),
            derived         |-> derived,
            enhancedMetrics |->
              IF derived
                THEN MetricsOf(calculateEnhancedMetrics(recentSales.val, economicData,
                                                        CrimeDataOf(crimeFetch)))
                ELSE metrics ] :
            postcode \in postcodes, getFullYear \in years, random \in JitterValues,
            economicData \in economicOptions, recentSales \in salesOptions,
            crimeFetch \in crimeFetches, derived \in BOOLEAN, metrics \in anyMetrics }
      fallback ==
        { [ engine          |-> "fallback",
            postcode        |-> postcode,
            getFullYear     |-> getFullYear,
            random          |-> [year \in 1..5 |-> 0],
            economicData    |-> absentEconomic,
            recentSales     |-> noSales,
            crimeFetch      |-> noCrimeFetch,
            crimeData       |-> NullCrime,
            derived         |-> FALSE,
            enhancedMetrics |-> CHOOSE metrics \in anyMetrics : TRUE ] :
            postcode \in postcodes, getFullYear \in years }
  IN  realTime \cup fallback

-----------------------------------------------------------------------------
(* Initial state: no request and no run of a pure function under way *)

Init ==
  /\ now = 0
  /\ ticks = 0
  /\ inst = "none"
  /\ cache = EmptyMap
  /\ cacheExpiry = EmptyMap
  /\ task = [f \in Fetchers |-> IdleTask]
  /\ econ = IdlePromise
  /\ enhanced = IdlePromise
  /\ hpc = "idle"
  /\ req = [method |-> "none", query |-> [present |-> FALSE, str |-> <<>>]]
  /\ nreq = 0
  /\ responses = <<>>
  /\ lookup = NoLookup
  /\ written = EmptyMap
  /\ served = EmptyMap
  /\ upstream = [f \in Fetchers |-> NoUpstream]
  /\ issued = {}
  /\ trace = {}
  /\ vIn = <<>>
  /\ vOut = "none"
  /\ aIn = <<>>
  /\ aOut = [engine |-> "none", code |-> ""]
  /\ eIn = [engine |-> "none"]
  /\ eOut = [pc |-> "idle"]
  /\ pIn = <<>>
  /\ pOut = [pc |-> "idle"]
  /\ race = [call |-> [c \in Callers |-> IdleTask], at |-> [c \in Callers |-> 0], log |-> <<>>]

validatorVars == <<vIn, vOut>>
runVars == <<aIn, aOut, eIn, eOut, pIn, pOut>>
clockVars == <<now, ticks>>
handlerVars == <<hpc, req, nreq, responses, trace>>

-----------------------------------------------------------------------------
(* Actions *)

\* the clock advances (the time one request takes is not modelled: it is
\* short against the cache durations)
Tick ==
  /\ hpc = "idle"
  /\ ticks < MaxTicks
  /\ \E d \in {1, 24 * HourMs} : now' = now + d
  /\ ticks' = ticks + 1
  /\ UNCHANGED <<inst, cache, cacheExpiry, task, econ, enhanced, handlerVars,
                 lookup, written, served, race, upstream, issued, validatorVars, runVars>>

\* new FreeRealTimeDataProvider() by a user of the exported class
ClientNew ==
  /\ hpc = "idle"
  /\ inst' = "client"
  /\ cache' = EmptyMap
  /\ cacheExpiry' = EmptyMap
  /\ written' = EmptyMap
  /\ task' = [f \in Fetchers |-> IdleTask]
  /\ upstream' = [f \in Fetchers |-> NoUpstream]
  /\ lookup' = NoLookup
  /\ econ' = IdlePromise
  /\ enhanced' = IdlePromise
  /\ race' = [call |-> [c \in Callers |-> IdleTask], at |-> [c \in Callers |-> 0], log |-> <<>>]
  /\ UNCHANGED <<clockVars, handlerVars, served, issued, validatorVars, runVars>>

\* the fetchers the direct user calls: one whose key names a configured
\* duration, two whose keys do not
ClientFetchers == {"bankRate", "landRegistry", "crime"}

ClientArgs(f) ==
  CASE f \in EconFetchers -> {0}
    [] f = "landRegistry" -> { <<"M", "1">> }
    [] f = "crime"        -> LiveCoords

\* a user of the exported class calls one of the cached fetchers on its instance
ClientCall(f) ==
  /\ hpc = "idle"
  /\ inst = "client"
  /\ ~InFlight(task[f])
  /\ \E arg \in ClientArgs(f) :
       LET r == CallFetcher(f, arg, cache, cacheExpiry, now)
       IN  /\ cache' = r.cache
           /\ cacheExpiry' = r.expiry
           /\ task' = [task EXCEPT ![f] = r.task]
           /\ lookup' = LookupOf(r.task.key, now, r.hit, r.cache, r.expiry, written)
           /\ upstream' = [upstream EXCEPT ![f] = NoUpstream]
  /\ UNCHANGED <<clockVars, inst, econ, enhanced, handlerVars, written, served, race,
                 issued, validatorVars, runVars>>

\* the upstream call of a fetcher answers or fails, and the fetcher continues
Settle(f) ==
  /\ InFlight(task[f])
  /\ \E ok \in BOOLEAN : \E v \in Answers(f) :
       LET out == FetcherOutcome(f, task[f], ok, v)
           key == task[f].key
           sc  == setCache(cache, cacheExpiry, key, out.task.val, now)
       IN  /\ task' = [task EXCEPT ![f] = out.task]
           /\ cache' = IF out.write THEN sc.cache ELSE cache
           /\ cacheExpiry' = IF out.write THEN sc.expiry ELSE cacheExpiry
           /\ written' = IF out.write
                           THEN MapPut(written, key, [at |-> now, dur |-> sc.expiry[key] - now])
                           ELSE written
           /\ served' = IF out.write /\ inst = "request" /\ key = <<"bankRate">>
                          THEN MapPut(served, key, [expiry |-> sc.expiry[key], by |-> nreq])
                          ELSE served
           /\ upstream' = IF InFlight(out.task)
                            THEN upstream
                            ELSE [upstream EXCEPT ![f] =
                                    [res |-> IF ok THEN "ok" ELSE "failed",
                                     val |-> IF ok /\ f \in EconFetchers THEN v ELSE 0]]
  /\ UNCHANGED <<clockVars, inst, econ, enhanced, handlerVars, lookup, race, issued,
                 validatorVars, runVars>>

\* the cached fetchers getEnhancedPropertyData calls before its first await,
\* in call order
StartOrder == <<"bankRate", "inflation", "unemployment", "gdpGrowth", "landRegistry">>

RECURSIVE CallAll(_, _, _, _)
CallAll(i, postcode, st, t) ==
  IF i > Len(StartOrder)
    THEN st
    ELSE LET f == StartOrder[i]
             r == CallFetcher(f, postcode, st.cache, st.expiry, t)
         IN  CallAll(i + 1, postcode,
                     [ tasks  |-> [st.tasks EXCEPT ![f] = r.task],
                       cache  |-> r.cache,
                       expiry |-> r.expiry,
                       last   |-> LookupOf(r.task.key, t, r.hit, r.cache, r.expiry, EmptyMap) ],
                     t)

\* getEnhancedPropertyData(postcode) up to its first await
StartEnhanced(postcode, t) ==
  LET p  == [cache |-> EmptyMap, expiry |-> EmptyMap]  \* new FreeRealTimeDataProvider()
      st == CallAll(1, postcode,
                    [ tasks  |-> [f \in Fetchers |-> IdleTask],
                      cache  |-> p.cache, expiry |-> p.expiry, last |-> NoLookup ], t)
  IN  [st EXCEPT !.tasks["coords"] = [st |-> "primary", key |-> <<>>, val |-> 0]]

\* the handler is called with a request and runs up to its first await
Receive(m, q) ==
  /\ hpc = "idle"
  /\ nreq < MaxRequests
  /\ nreq' = nreq + 1
  /\ req' = [method |-> m, query |-> q]
  /\ LET verdict == Verdict(m, q)
     IN  IF verdict # "proceed"
           THEN /\ responses' = << EarlyResponse(verdict) >>
                /\ trace' = {}
                /\ issued' = {}
                /\ hpc' = "idle"
                /\ UNCHANGED <<inst, cache, cacheExpiry, task, econ, enhanced, lookup,
                               written, upstream>>
           ELSE LET st == StartEnhanced(q.str, now)
                IN  /\ responses' = <<>>
                    /\ trace' = {"validated"}
                    /\ hpc' = "data"
                    /\ inst' = "request"
                    /\ cache' = st.cache
                    /\ cacheExpiry' = st.expiry
                    /\ task' = st.tasks
                    /\ issued' = { f \in Fetchers : st.tasks[f].st = "primary" }
                    /\ lookup' = st.last
                    /\ written' = EmptyMap
                    /\ upstream' = [f \in Fetchers |-> NoUpstream]
                    /\ econ' = [st |-> "pending", val |-> 0]
                    /\ enhanced' = [st |-> "pending", val |-> 0]
  /\ UNCHANGED <<clockVars, served, race, validatorVars, runVars>>

\* getAllEconomicData resumes after "await Promise.allSettled([...])"
EconJoin ==
  /\ econ.st = "pending"
  /\ \A f \in EconFetchers : IsSettled(task[f])
  /\ econ' = [st |-> "fulfilled",
              val |-> getAllEconomicData([f \in EconFetchers |-> task[f]])]
  /\ UNCHANGED <<clockVars, inst, cache, cacheExpiry, task, enhanced, handlerVars,
                 lookup, written, served, race, upstream, issued, validatorVars, runVars>>

\* economic, recentSales, coords of getEnhancedPropertyData
Economic == IF econ.st = "fulfilled" THEN econ.val ELSE getFallbackEconomicData
RecentSales == IF task["landRegistry"].st = "fulfilled" THEN task["landRegistry"].val ELSE <<>>
Coords == IF task["coords"].st = "fulfilled" THEN task["coords"].val ELSE NullCoords

\* getPoliceData called whatever the coordinate lookup gave
HasCoordsUnchecked(coords) == TRUE

\* "if (coords)"
HasCoords(coords) == ~coords.isNull

\* getEnhancedPropertyData resumes after its "await Promise.allSettled([...])":
\* with coordinates it calls getPoliceData, without them it finishes
DataJoin ==
  /\ hpc = "data"
  /\ IsSettled(econ)
  /\ IsSettled(task["landRegistry"])
  /\ IsSettled(task["coords"])
  /\ IF HasCoords(Coords)
       THEN LET r == CallFetcher("crime", Coords, cache, cacheExpiry, now)
            IN  /\ cache' = r.cache
                /\ cacheExpiry' = r.expiry
                /\ task' = [task EXCEPT !["crime"] = r.task]
                /\ lookup' = LookupOf(r.task.key, now, r.hit, r.cache, r.expiry, written)
                /\ issued' = IF r.hit THEN issued ELSE issued \cup {"crime"}
                /\ hpc' = "crime"
                /\ UNCHANGED enhanced
       ELSE /\ enhanced' = EnhancedResult(req.query.str, Economic, RecentSales, NullCrime)
            /\ hpc' = "engine"
            /\ UNCHANGED <<cache, cacheExpiry, task, lookup, issued>>
  /\ UNCHANGED <<clockVars, inst, econ, req, nreq, responses, trace, written, served, race,
                 upstream, validatorVars, runVars>>

\* getEnhancedPropertyData resumes after "await dataProvider.getPoliceData(...)",
\* whose rejection its inner catch turns into crimeData = null
CrimeJoin ==
  /\ hpc = "crime"
  /\ IsSettled(task["crime"])
  /\ LET crimeData == IF task["crime"].st = "fulfilled" THEN task["crime"].val ELSE NullCrime
     IN  enhanced' = EnhancedResult(req.query.str, Economic, RecentSales, crimeData)
  /\ hpc' = "engine"
  /\ UNCHANGED <<clockVars, inst, cache, cacheExpiry, task, econ, req, nreq, responses,
                 trace, lookup, written, served, race, upstream, issued, validatorVars, runVars>>

\* the handler resumes after "await getEnhancedPropertyData(postcode)": the
\* real-time engine and the 200 response, or, when the awaited promise rejected
\* or an exception is raised on the way (rtThrows), the catch block.  When the
\* handler returns, the provider instance and the promises of the request are
\* no longer reachable.
Engine(rtThrows) ==
  /\ hpc = "engine"
  /\ hpc' = "idle"
  /\ IF enhanced.st = "fulfilled" /\ ~rtThrows
       THEN /\ trace' = trace \cup {"engineRan"}
            /\ responses' = Append(responses, Response(200, "true", "none"))
       ELSE LET fb == FallbackAttempt(req.query.str)
            IN  /\ trace' = trace \cup {"rtThrew"}
                              \cup (IF enhanced.st = "fulfilled" THEN {"engineRan"} ELSE {})
                              \cup (IF fb.constructed THEN {"fbConstructed"} ELSE {})
                              \cup (IF fb.engineRan THEN {"fbEngineRan"} ELSE {})
                              \cup (IF fb.engineThrew THEN {"fbEngineThrew"} ELSE {})
                /\ responses' = Append(responses,
                                       IF fb.threw THEN Response(500, "false", "none")
                                                   ELSE Response(200, "true", "fallback"))
  /\ inst' = "none"
  /\ cache' = EmptyMap
  /\ cacheExpiry' = EmptyMap
  /\ written' = EmptyMap
  /\ task' = [f \in Fetchers |-> IdleTask]
  /\ upstream' = [f \in Fetchers |-> NoUpstream]
  /\ lookup' = NoLookup
  /\ econ' = IdlePromise
  /\ enhanced' = IdlePromise
  /\ UNCHANGED <<clockVars, req, nreq, served, race, issued, validatorVars, runVars>>

\* one run of the validator on the string drawn initially
Validate ==
  /\ vOut = "none"
  /\ vOut' = IF isValidUKPostcode(vIn) THEN "accept" ELSE "reject"
  /\ UNCHANGED <<clockVars, inst, cache, cacheExpiry, task, econ, enhanced, handlerVars,
                 lookup, written, served, race, upstream, issued, vIn, runVars>>

\* one run of extractAreaCode, of either engine, on the string drawn initially
ExtractAreaCode(engine) ==
  /\ aOut.engine = "none"
  /\ aOut' = [ engine |-> engine,
               code   |-> IF engine = "realtime" THEN extractAreaCode(aIn)
                                                 ELSE fallbackExtractAreaCode(aIn) ]
  /\ UNCHANGED <<clockVars, inst, cache, cacheExpiry, task, econ, enhanced, handlerVars,
                 lookup, written, served, race, upstream, issued, validatorVars, aIn,
                 eIn, eOut, pIn, pOut>>


\* "new UniversalRealTimePredictor(enhancedData)" and
\* "await predictor.generatePredictions(postcode)" of the handler, or the same
\* two steps of its catch block with UniversalUKPredictor
EnginePredict ==
  /\ eIn.engine # "none"
  /\ eOut.pc = "idle"
  /\ LET d == UniversalRealTimePredictor(eIn)
     IN  eOut' =
           IF eIn.engine = "fallback"
             THEN [ pc          |-> "predicted",
                    d           |-> d,
                    predictions |-> fallbackGeneratePredictions(eIn.postcode,
                                                                eIn.getFullYear) ]
           ELSE IF ~d.recentSales.present
             THEN [pc |-> "threw", d |-> d, predictions |-> <<>>]
             ELSE [ pc          |-> "predicted",
                    d           |-> d,
                    predictions |-> generatePredictions(d, eIn.postcode, eIn.getFullYear,
                                                        eIn.random) ]
  /\ UNCHANGED <<clockVars, inst, cache, cacheExpiry, task, econ, enhanced, handlerVars,
                 lookup, written, served, race, upstream, issued, validatorVars, aIn, aOut,
                 eIn, pIn, pOut>>

\* "predictor.calculateRisk(predictions, postcode)"
EngineRisk ==
  /\ eOut.pc = "predicted"
  /\ eOut' =
       [ pc          |-> "risk",
         d           |-> eOut.d,
         predictions |-> eOut.predictions,
         riskScore   |-> IF eIn.engine = "fallback"
                           THEN fallbackCalculateRisk(eOut.predictions, eIn.postcode)
                           ELSE calculateRisk(eOut.d, eOut.predictions, eIn.postcode) ]
  /\ UNCHANGED <<clockVars, inst, cache, cacheExpiry, task, econ, enhanced, handlerVars,
                 lookup, written, served, race, upstream, issued, validatorVars, aIn, aOut,
                 eIn, pIn, pOut>>

\* "predictor.generateRecommendation(predictions, riskScore, postcode)" and
\* "predictor.getAreaInfo(postcode)"
EngineRecommend ==
  /\ eOut.pc = "risk"
  /\ eOut' =
       [ pc             |-> "done",
         d              |-> eOut.d,
         predictions    |-> eOut.predictions,
         riskScore      |-> eOut.riskScore,
         recommendation |->
           IF eIn.engine = "fallback"
             THEN fallbackGenerateRecommendation(eOut.predictions, eOut.riskScore,
                                                 eIn.postcode)
             ELSE generateRecommendation(eOut.d, eOut.predictions, eOut.riskScore,
                                         eIn.postcode),
         areaInfo       |-> IF eIn.engine = "fallback"
                              THEN fallbackGetAreaInfo(eIn.postcode)
                              ELSE getAreaInfo(eOut.d, eIn.postcode) ]
  /\ UNCHANGED <<clockVars, inst, cache, cacheExpiry, task, econ, enhanced, handlerVars,
                 lookup, written, served, race, upstream, issued, validatorVars, aIn, aOut,
                 eIn, pIn, pOut>>

-----------------------------------------------------------------------------
(* Specifications *)

\* "this.parseLandRegistryCSV(csvData)" of getLandRegistryData, on a payload
Parse ==
  /\ pOut.pc = "idle"
  /\ \E sales \in parseLandRegistryCSV(pIn) :
       pOut' = [pc |-> "parsed", sales |-> sales]
  /\ UNCHANGED <<clockVars, inst, cache, cacheExpiry, task, econ, enhanced, handlerVars,
                 lookup, written, served, race, upstream, issued, validatorVars, aIn, aOut,
                 eIn, eOut, pIn>>

\* "calculateEnhancedMetrics(recentSales, economicData, crimeData)" of
\* getEnhancedPropertyData on the parsed sales
ParseMetrics ==
  /\ pOut.pc = "parsed"
  /\ pOut' = [ pc      |-> "done",
               sales   |-> pOut.sales,
               metrics |-> calculateEnhancedMetrics(pOut.sales, getFallbackEconomicData,
                                                    NullCrime) ]
  /\ UNCHANGED <<clockVars, inst, cache, cacheExpiry, task, econ, enhanced, handlerVars,
                 lookup, written, served, race, upstream, issued, validatorVars, aIn, aOut,
                 eIn, eOut, pIn>>

\* "this.calculateUniversalGrowth(areaCode, year)" of generatePredictions for
\* the five years, in an engine built on the parsed sales and their metrics
ParseGrowth ==
  /\ pOut.pc = "done"
  /\ \E postcode \in {SW1A1AA, ZZ99ZZ} :
       LET d == UniversalRealTimePredictor(
                  [ economicData    |-> getFallbackEconomicData,
                    recentSales     |-> [present |-> TRUE, val |-> pOut.sales],
                    crimeData       |-> NullCrime,
                    enhancedMetrics |-> pOut.metrics ])
       IN  pOut' = [ pc         |-> "grown",
                     sales      |-> pOut.sales,
                     metrics    |-> pOut.metrics,
                     postcode   |-> postcode,
                     baseGrowth |-> [ year \in 1..5 |->
                                        calculateUniversalGrowth(
                                          d, extractAreaCode(postcode), year) ] ]
  /\ UNCHANGED <<clockVars, inst, cache, cacheExpiry, task, econ, enhanced, handlerVars,
                 lookup, written, served, race, upstream, issued, validatorVars, aIn, aOut,
                 eIn, eOut, pIn>>

\* caller c calls getONSInflationRate on the client's instance: the
\* synchronous head of the fetcher, up to its await of fetch
RaceCall(c) ==
  /\ hpc = "idle"
  /\ inst = "client"
  /\ race.call[c].st = "idle"
  /\ LET r == CallFetcher("inflation", 0, cache, cacheExpiry, now)
     IN  /\ cache' = r.cache
         /\ cacheExpiry' = r.expiry
         /\ race' = [race EXCEPT !.call[c] = r.task, !.at[c] = now]
         /\ lookup' = LookupOf(r.task.key, now, r.hit, r.cache, r.expiry, written)
  /\ UNCHANGED <<clockVars, inst, task, econ, enhanced, handlerVars, written, served,
                 upstream, issued, validatorVars, runVars>>

\* the upstream call of caller c answers (with the figure published at that
\* moment) or fails, and the caller's invocation continues to its next await
\* or its end; setCache runs inside this one continuation
RaceSettle(c) ==
  /\ InFlight(race.call[c])
  /\ \E ok \in BOOLEAN : \E v \in {310, 320} :
       LET out == FetcherOutcome("inflation", race.call[c], ok, v)
           key == race.call[c].key
           sc  == setCache(cache, cacheExpiry, key, out.task.val, now)
       IN  /\ cache' = IF out.write THEN sc.cache ELSE cache
           /\ cacheExpiry' = IF out.write THEN sc.expiry ELSE cacheExpiry
           /\ written' = IF out.write
                           THEN MapPut(written, key, [at |-> now, dur |-> sc.expiry[key] - now])
                           ELSE written
           /\ race' = [race EXCEPT
                         !.call[c] = out.task,
                         !.log = IF out.write
                                   THEN Append(@, [by |-> c, val |-> out.task.val, at |-> now])
                                   ELSE @]
  /\ UNCHANGED <<clockVars, inst, task, econ, enhanced, handlerVars, lookup, served,
                 upstream, issued, validatorVars, runVars>>

Next ==
  \/ Tick
  \/ \E f \in Fetchers : Settle(f)
  \/ \E m \in Methods : \E q \in Queries : Receive(m, q)
  \/ EconJoin
  \/ DataJoin
  \/ CrimeJoin
  \/ \E rtThrows \in BOOLEAN : Engine(rtThrows)

\* the service: requests to the predictions handler, and the clock
Spec == Init /\ [][Next]_vars

\* the service with the scheduling of the event loop: a continuation whose
\* awaited promises have settled is run; nothing makes an upstream answer, and
\* no step of the program ends a fetch that is not answered
SpecLive ==
  /\ Init /\ [][Next]_vars
  /\ WF_vars(EconJoin) /\ WF_vars(DataJoin) /\ WF_vars(CrimeJoin)
  /\ WF_vars(\E rtThrows \in BOOLEAN : Engine(rtThrows))

NextProvider ==
  \/ Tick
  \/ ClientNew
  \/ \E f \in ClientFetchers : ClientCall(f)
  \/ \E f \in ClientFetchers : Settle(f)

\* direct use of the exported class FreeRealTimeDataProvider, and the clock
SpecProvider == Init /\ [][NextProvider]_vars

NextRace ==
  \/ Tick
  \/ ClientNew
  \/ \E c \in Callers : RaceCall(c)
  \/ \E c \in Callers : RaceSettle(c)

\* two callers of the inflation fetcher on one instance of the exported
\* class, and the clock
SpecRace == Init /\ [][NextRace]_vars

InitValidator ==
  /\ Init!1 /\ Init!2 /\ Init!3 /\ Init!4 /\ Init!5 /\ Init!6 /\ Init!7 /\ Init!8
  /\ Init!9 /\ Init!10 /\ Init!11 /\ Init!12 /\ Init!13 /\ Init!14 /\ Init!15
  /\ Init!16 /\ Init!17 /\ Init!18
  /\ vIn \in StringsUpTo(MaxLen)
  /\ vOut = "none"
  /\ Init!21 /\ Init!22 /\ Init!23 /\ Init!24 /\ Init!25 /\ Init!26 /\ Init!27

NextValidator == Validate

\* the validator applied to every string of at most MaxLen characters
SpecValidator == InitValidator /\ [][NextValidator]_vars

InitAreaCode ==
  /\ Init!1 /\ Init!2 /\ Init!3 /\ Init!4 /\ Init!5 /\ Init!6 /\ Init!7 /\ Init!8
  /\ Init!9 /\ Init!10 /\ Init!11 /\ Init!12 /\ Init!13 /\ Init!14 /\ Init!15
  /\ Init!16 /\ Init!17 /\ Init!18 /\ Init!19 /\ Init!20
  /\ aIn \in AreaInputs
  /\ aOut = [engine |-> "none", code |-> ""]
  /\ Init!23 /\ Init!24 /\ Init!25 /\ Init!26 /\ Init!27

NextAreaCode == \E engine \in {"realtime", "fallback"} : ExtractAreaCode(engine)

\* extractAreaCode of both engines applied to every string of AreaInputs
SpecAreaCode == InitAreaCode /\ [][NextAreaCode]_vars

InitEngine ==
  /\ Init!1 /\ Init!2 /\ Init!3 /\ Init!4 /\ Init!5 /\ Init!6 /\ Init!7 /\ Init!8
  /\ Init!9 /\ Init!10 /\ Init!11 /\ Init!12 /\ Init!13 /\ Init!14 /\ Init!15
  /\ Init!16 /\ Init!17 /\ Init!18 /\ Init!19 /\ Init!20 /\ Init!21 /\ Init!22
  /\ eIn \in EngineInputs
  /\ eOut = [pc |-> "idle"]
  /\ Init!25 /\ Init!26 /\ Init!27

NextEngine ==
  \/ EnginePredict
  \/ EngineRisk
  \/ EngineRecommend

\* the three engine calls of the handler, for both engines, on every input of
\* EngineInputs
SpecEngine == InitEngine /\ [][NextEngine]_vars

InitParser ==
  /\ Init!1 /\ Init!2 /\ Init!3 /\ Init!4 /\ Init!5 /\ Init!6 /\ Init!7 /\ Init!8
  /\ Init!9 /\ Init!10 /\ Init!11 /\ Init!12 /\ Init!13 /\ Init!14 /\ Init!15
  /\ Init!16 /\ Init!17 /\ Init!18 /\ Init!19 /\ Init!20 /\ Init!21 /\ Init!22
  /\ Init!23 /\ Init!24
  /\ pIn \in ParserInputs
  /\ pOut = [pc |-> "idle"]
  /\ Init!27

NextParser ==
  \/ Parse
  \/ ParseMetrics
  \/ ParseGrowth

\* the parser, the metrics of its result and the base growth the engine takes
\* from them, on every payload of ParserInputs
SpecParser == InitParser /\ [][NextParser]_vars

-----------------------------------------------------------------------------
(* Claims *)

Rate == <<"bankRate">>
HandlerDone == hpc = "idle" /\ responses # <<>>

\* C1: for a valid postcode the handler answers 500 only when the real-time
\* path threw and the fallback engine threw as well; when the real-time path
\* threw and the fallback engine did not, it answers 200 with dataSource
\* "fallback"; the fallback is only run after the real-time path threw.
C1_TwoTierFallback ==
  (HandlerDone /\ "validated" \in trace) =>
    LET r == responses[Len(responses)]
    IN  /\ r.status = 500 => ("rtThrew" \in trace /\ "fbEngineThrew" \in trace)
        /\ ("rtThrew" \in trace /\ "fbEngineThrew" \notin trace)
             => (r.status = 200 /\ r.dataSource = "fallback")
        /\ "fbConstructed" \in trace => "rtThrew" \in trace

\* C2: an isCached call made later than the latest setCache time of its key
\* plus the duration that setCache applied returns false and leaves the key in
\* neither map; so a hit is only ever given within the entry's lifetime.
C2_NoStaleHit ==
  /\ (lookup.known /\ lookup.at > lookup.setAt + lookup.setDur)
       => (~lookup.hit /\ ~lookup.inCache /\ ~lookup.inExpiry)
  /\ lookup.hit => (lookup.known /\ lookup.at <= lookup.setAt + lookup.setDur)

C2_Witness ==
  /\ lookup.known
  /\ lookup.at > lookup.setAt + lookup.setDur
  /\ ~lookup.hit

\* C3: a base rate cached while serving an earlier request, and not yet
\* expired, is served from the cache by a later request: the later request
\* does not call the base-rate upstream.
C3_ProcessWideCache ==
  (/\ hpc = "data"
   /\ Rate \in DOMAIN served
   /\ served[Rate].by < nreq
   /\ now <= served[Rate].expiry)
    => "bankRate" \notin issued

\* C4: every entry written by the base-rate fetcher gets the configured
\* bankRate duration (24 h) and every entry written by the crime fetcher the
\* configured crimeData duration (7 days).
C4_ConfiguredDurations ==
  \A key \in DOMAIN written :
    /\ key[1] = "bankRate" => written[key].dur = cacheDuration.bankRate
    /\ key[1] = "crime" => written[key].dur = cacheDuration.crimeData

\* the field and the label of the economic record that belong to a fetcher
EconField(rec, f) ==
  CASE f = "bankRate"     -> rec.baseRate
    [] f = "inflation"    -> rec.inflation
    [] f = "unemployment" -> rec.unemploymentRate
    [] f = "gdpGrowth"    -> rec.gdpGrowth

EconFallback(f) == EconField(getFallbackEconomicData, f)

\* C5: getAllEconomicData resolves whatever subset of its four fetchers fails;
\* a field whose fetcher succeeded carries the fetched value and the label
\* "live", a field whose fetcher failed carries its fixed fallback and the
\* label "fallback", independently of the other fetchers.
C5_SettleAll ==
  /\ econ.st # "rejected"
  /\ econ.st = "fulfilled" =>
       \A f \in EconFetchers :
         /\ upstream[f].res \in {"ok", "failed"}
         /\ upstream[f].res = "ok" =>
              (EconField(econ.val, f) = upstream[f].val /\ econ.val.dataSources[f] = "live")
         /\ upstream[f].res = "failed" =>
              (EconField(econ.val, f) = EconFallback(f) /\ econ.val.dataSources[f] = "fallback")

C5_Witness ==
  /\ econ.st = "fulfilled"
  /\ upstream["bankRate"].res = "failed"
  /\ upstream["inflation"].res = "ok"
  /\ upstream["unemployment"].res = "failed"
  /\ upstream["gdpGrowth"].res = "ok"

\* C6: the dataQuality descriptor labels crime "live" only when the crime
\* snapshot came from the live police source.
C6_CrimeLiveOnlyIfLive ==
  enhanced.st = "fulfilled" =>
    (enhanced.val.dataQuality.crime = "live" => upstream["crime"].res = "ok")

\* C7: getEnhancedPropertyData never rejects; whatever upstream sources fail,
\* it resolves with a record in which the failed sources are the fallback
\* economic record, the empty sales list, null crime data (no coordinates)
\* or the fallback crime snapshot.
C7_FailuresAbsorbed ==
  /\ enhanced.st # "rejected"
  /\ hpc = "engine" => enhanced.st = "fulfilled"
  /\ enhanced.st = "fulfilled" =>
       /\ (\A f \in EconFetchers : upstream[f].res = "failed")
            => enhanced.val.economicData = getFallbackEconomicData
       /\ upstream["landRegistry"].res = "failed" => enhanced.val.recentSales = <<>>
       /\ upstream["coords"].res = "failed" => enhanced.val.crimeData = NullCrime
       /\ upstream["crime"].res = "failed" => enhanced.val.crimeData = FallbackCrime

C7_Witness ==
  /\ enhanced.st = "fulfilled"
  /\ \A f \in EconFetchers \cup {"landRegistry", "coords"} : upstream[f].res = "failed"

\* C8: while a request is served, the crime fetch exists only once the
\* coordinate lookup has settled with coordinates, and it is made for those
\* coordinates; when the lookup gave none, no crime fetch is made, crimeData
\* is null and getEnhancedPropertyData still resolves.
C8_CrimeAfterCoords ==
  inst = "request" =>
    /\ (task["crime"].st # "idle" \/ "crime" \in issued) =>
         /\ task["coords"].st = "fulfilled"
         /\ ~task["coords"].val.isNull
         /\ task["crime"].key = CacheKey("crime", task["coords"].val)
    /\ (task["coords"].st = "fulfilled" /\ hpc \in {"engine", "idle"}) =>
         (task["coords"].val.isNull =>
            /\ task["crime"].st = "idle"
            /\ "crime" \notin issued
            /\ enhanced.st = "fulfilled"
            /\ enhanced.val.crimeData = NullCrime)

C8_Witness ==
  /\ inst = "request"
  /\ upstream["coords"].res = "failed"
  /\ enhanced.st = "fulfilled"
  /\ "crime" \notin issued

\* C9: a GET request whose postcode is missing or fails the validator is
\* answered 400 with success false, and nothing else happens for it: no
\* upstream call, no engine, no fallback.
C9_ValidationFirst ==
  (/\ hpc = "idle"
   /\ req.method = "GET"
   /\ (PostcodeMissing(req.query) \/ ~isValidUKPostcode(req.query.str)))
    => /\ responses = << Response(400, "false", "none") >>
       /\ issued = {}
       /\ trace = {}

C9_Witness ==
  /\ hpc = "idle"
  /\ req.method = "GET"
  /\ req.query.present
  /\ req.query.str # <<>>
  /\ ~isValidUKPostcode(req.query.str)
  /\ responses = << Response(400, "false", "none") >>

\* C10: the validator accepts a string exactly when the string itself matches
\* the full pattern or the outward-only pattern.
C10_MatchesPatterns ==
  vOut # "none" =>
    (vOut = "accept" <=> (\/ RegexTest(ukPostcodeRegex, vIn)
                          \/ RegexTest(outwardOnly, vIn)))

\* C15: for every string, extractAreaCode of either engine returns the first
\* two characters of the whitespace-stripped, upper-cased string when they are
\* a key of the engine's area table, else the first character when it is a
\* key, else "DEFAULT"; the code returned is always a key of the table.
C15_AreaCodeResolves ==
  aOut.engine # "none" =>
    LET table == IF aOut.engine = "realtime" THEN areaData ELSE fallbackAreaData
        c     == toUpperCase(StripWhitespace(aIn))
        two   == Join(SubSeq(c, 1, IF Len(c) < 2 THEN Len(c) ELSE 2))
        one   == Join(SubSeq(c, 1, IF Len(c) < 1 THEN Len(c) ELSE 1))
    IN  /\ aOut.code = (IF two \in DOMAIN table THEN two
                        ELSE IF one \in DOMAIN table THEN one ELSE "DEFAULT")
        /\ aOut.code \in DOMAIN table

C15_Witness ==
  /\ aOut.engine = "realtime"
  /\ aIn = <<" ", "s", "Z">>
  /\ aOut.code = "S"

\* the engine run has produced its predictions
Predicted == eOut.pc \in {"predicted", "risk", "done"}
RealTime == eIn.engine = "realtime"

\* C11: whichever of economicData, recentSales, crimeData and the fields of
\* enhancedMetrics are present, generatePredictions, calculateRisk and
\* generateRecommendation of the real-time engine do not throw, and the
\* predictions cover five years.
C11_EngineTotal ==
  /\ eOut.pc # "threw"
  /\ Predicted => Len(eOut.predictions) = 5
  /\ eOut.pc = "done" =>
       eOut.recommendation.recommendation
         \in {"STRONG BUY", "BUY", "HOLD", "SELL", "STRONG SELL"}

C11_Witness ==
  /\ RealTime
  /\ eOut.pc = "done"
  /\ ~eIn.economicData.present
  /\ ~eIn.recentSales.present
  /\ eIn.crimeData.isNull
  /\ eIn.enhancedMetrics.averagePrice.kind = "absent"
  /\ ~eIn.enhancedMetrics.priceGrowth.present
  /\ ~eIn.enhancedMetrics.propertyTypes.present
  /\ ~eIn.enhancedMetrics.crimeImpact.present

\* C12: generatePredictions of either engine returns five entries, the i-th
\* with year = the year of the clock + i, so the years increase strictly.
C12_FiveYears ==
  Predicted =>
    /\ Len(eOut.predictions) = 5
    /\ \A i \in 1..Len(eOut.predictions) : eOut.predictions[i].year = eIn.getFullYear + i

C12_Witness ==
  /\ eIn.engine = "fallback"
  /\ eIn.getFullYear = 2026
  /\ Predicted
  /\ eOut.predictions[5].year = 2031

\* C13: the riskScore of either engine is a whole number from 1 to 10.
C13_RiskInRange ==
  eOut.pc \in {"risk", "done"} =>
    /\ ~eOut.riskScore.nan
    /\ eOut.riskScore.v \in 1..10

\* C14: every prediction of the real-time engine has predictedYield >= 1.5 and
\* confidence from 0.5 to 0.95.
C14_YieldAndConfidence ==
  (RealTime /\ Predicted) =>
    \A i \in 1..Len(eOut.predictions) :
      /\ ~eOut.predictions[i].predictedYield.nan
      /\ eOut.predictions[i].predictedYield.v >= 1500
      /\ ~eOut.predictions[i].confidence.nan
      /\ eOut.predictions[i].confidence.v >= 500
      /\ eOut.predictions[i].confidence.v <= 950

\* every upstream source failed: the economic record is the all-fallback one,
\* there are no sales, and the crime data is null or the fallback snapshot
NoLiveData ==
  /\ RealTime
  /\ eIn.derived
  /\ eIn.economicData.present
  /\ \A f \in EconFetchers : eIn.economicData.dataSources[f] = "fallback"
  /\ eIn.recentSales = [present |-> TRUE, val |-> <<>>]
  /\ eIn.crimeFetch.res \in {"none", "failed"}

\* the growth of year i from the area profile alone: its growth rate and the
\* local factors (the area bonus and the random term of the year; there are no
\* property types without sales), decayed by 0.94 per year
ProfileGrowth(areaCode, i) ==
  LET raw == areaData[areaCode].growthRate
             + calculateLocalFactors(eIn, eIn.postcode, i, eIn.random[i]).v
  IN  RoundDiv(RoundDiv(raw * RoundDiv(PowMillionths(94, i - 1), 100), 10000), 10) * 10

\* C16: with no live data the predictions are those of the matched area
\* profile alone (the economic and market adjustments add nothing); for
\* "SW1A 1AA" the area is "SW", "London Southwest", and the growth of year 1 is
\* 3.7 + 0.5 = 4.2 plus the random term.
C16_PureFallback ==
  (NoLiveData /\ eOut.pc = "done") =>
    /\ \A i \in 1..Len(eOut.predictions) :
         eOut.predictions[i].priceChangePercent
           = Num(ProfileGrowth(eOut.areaInfo.areaCode, i))
    /\ eIn.postcode = SW1A1AA =>
         /\ eOut.areaInfo.areaCode = "SW"
         /\ eOut.areaInfo.region = "London Southwest"
         /\ eOut.predictions[1].priceChangePercent
              = MathRound(Num(4200 + eIn.random[1]), 10)

\* the confidence of year i for a coverage factor and a least number of sales
\* for the real-data bonus, from the data of the run
ConfidenceWith(factor, least, i) ==
  LET d     == eIn
      live  == IF d.economicData.present
                 THEN Cardinality({ f \in EconFetchers : d.economicData.dataSources[f] = "live" })
                 ELSE 0
      n     == IF d.recentSales.present THEN Len(d.recentSales.val) ELSE 0
      q     == 700 + 50 * live + (IF n >= 2 THEN 150 ELSE 100 * n)
               + (IF ~d.crimeData.isNull /\ d.crimeData.source # "fallback" THEN 50 ELSE 0)
      dq    == IF q > 1000 THEN 1000 ELSE q
      raw   == ((900 - 50 * i) * dq * factor) \div 1000
               + (IF n >= least THEN 50000 ELSE 0)
               + (IF d.economicData.present /\ d.economicData.dataSources.bankRate = "live"
                    THEN 30000 ELSE 0)
      cut   == IF raw > 950000 THEN 950000 ELSE IF raw < 500000 THEN 500000 ELSE raw
  IN  ((cut + 5000) \div 10000) * 10

\* C17: for "ZZ9 9ZZ" the real-time engine resolves "DEFAULT", "UK Average",
\* every prediction and the recommendation say "estimated", and the confidence
\* is computed with the factor 0.75; for the postcodes of a matched area they
\* say "detailed" and the factor is 0.95.
C17_DefaultArea ==
  (RealTime /\ Predicted) =>
    LET unmatched == eIn.postcode = ZZ99ZZ
        coverage  == IF unmatched THEN "estimated" ELSE "detailed"
        factor    == IF unmatched THEN 750 ELSE 950
    IN  /\ \A i \in 1..Len(eOut.predictions) :
             /\ eOut.predictions[i].areaCoverage = coverage
             /\ eOut.predictions[i].confidence = Num(ConfidenceWith(factor, 6, i))
        /\ eOut.pc = "done" =>
             /\ eOut.recommendation.areaCoverage = coverage
             /\ eOut.areaInfo.coverage = coverage
             /\ unmatched <=> eOut.areaInfo.areaCode = "DEFAULT"
             /\ unmatched <=> eOut.areaInfo.region = "UK Average"

C17_Witness ==
  /\ RealTime
  /\ eIn.postcode = ZZ99ZZ
  /\ eOut.pc = "done"
  /\ eOut.areaInfo.areaCode = "DEFAULT"
  /\ eOut.predictions[1].confidence = Num(720)

\* C18: when the police source fails, crimeData is the fallback snapshot
\* {source "fallback", totalCrimes 25, crimeRate 300}; with it the market
\* adjustment is the sales part alone, and the recommendation has neither of
\* the two crime items (the penalty goes with the second).
C18_CrimeFallback ==
  (RealTime /\ eIn.crimeFetch.res = "failed") =>
    /\ eIn.crimeData = [isNull |-> FALSE, totalCrimes |-> 25, crimeRate |-> 300,
                        source |-> "fallback"]
    /\ Predicted =>
         LET n == IF eIn.recentSales.present THEN Len(eIn.recentSales.val) ELSE 0
         IN  calculateMarketConditions(eOut.d, 1) = Num(IF n > 5 THEN 500 ELSE n * 100)
    /\ eOut.pc = "done" =>
         \A i \in 1..Len(eOut.recommendation.reasoning) :
           eOut.recommendation.reasoning[i]
             \notin {"Low crime area advantage", "Higher crime area concern"}

C18_Witness ==
  /\ RealTime
  /\ eIn.crimeFetch.res = "failed"
  /\ eOut.pc = "done"
  /\ eIn.enhancedMetrics.crimeImpact.present
  /\ eIn.enhancedMetrics.crimeImpact.safetyScore = Num(2000)


\* the lines of the payload, after the header, that hold a record: not blank,
\* 12 fields or more, and a price that parses as a number
RecordLines ==
  { i \in 2..Len(pIn) :
      LET parts == Split(Trim(pIn[i]), ",")
      IN  /\ Trim(pIn[i]) # <<>>
          /\ Len(parts) >= MinParts
          /\ ~parseInt(SelectSeq(parts[2], LAMBDA ch : ch # "\"")).nan }

\* C19: the parser skips every line with fewer than 12 fields and every line
\* whose price is no number and goes on with the rest: the output holds one
\* record for each other line (up to the cap), none with a non-numeric price;
\* with no such line the output is the empty list and averagePrice is absent.
C19_SkipsMalformed ==
  pOut.pc = "done" =>
    /\ \A i \in 1..Len(pOut.sales) : ~pOut.sales[i].price.nan
    /\ Len(pOut.sales) = IF Cardinality(RecordLines) < SalesCap
                           THEN Cardinality(RecordLines) ELSE SalesCap
    /\ RecordLines = {} =>
         /\ pOut.sales = <<>>
         /\ pOut.metrics.averagePrice.kind = "absent"

\* C20: the output of the parser has at most 50 records, and of two records
\* with a date the one placed first is not the older one.
C20_CappedAndSorted ==
  pOut.pc \in {"parsed", "done"} =>
    /\ Len(pOut.sales) <= SalesCap
    /\ \A i, j \in 1..Len(pOut.sales) :
         i < j => CompareDates(pOut.sales[i], pOut.sales[j]) # "positive"

\* the label the ladder of the specification gives a score in thousandths
LadderOfTheSpecification(score) ==
  IF score >= 7500 THEN "STRONG BUY"
  ELSE IF score >= 6000 THEN "BUY"
  ELSE IF score <= 2000 THEN "STRONG SELL"
  ELSE IF score <= 3000 THEN "SELL"
  ELSE "HOLD"

\* C23: the label of a recommendation is the one of the ladder for its score:
\* 7.5 and more STRONG BUY, 6 and more BUY, 2 and less STRONG SELL, above 2 up
\* to 3 SELL, otherwise HOLD.
C23_LabelFollowsLadder ==
  eOut.pc = "done" =>
    eOut.recommendation.recommendation
      = LadderOfTheSpecification(eOut.recommendation.score.v)

\* C25: the confidence of every prediction holds the real-data bonus of 0.05
\* when there are 5 recent sales or more, and does not hold it with fewer.
C25_BonusFromFiveSales ==
  (RealTime /\ Predicted) =>
    \A i \in 1..Len(eOut.predictions) :
      eOut.predictions[i].confidence
        = Num(ConfidenceWith(IF eIn.postcode = ZZ99ZZ THEN 750 ELSE 950, 5, i))

\* the percent change, in thousandths, from the mean of the last three to the
\* mean of the first three of a list of prices
PercentChange(prices) ==
  LET n      == Len(prices)
      oldSum == prices[n - 2] + prices[n - 1] + prices[n]
      newSum == prices[1] + prices[2] + prices[3]
  IN  Num((2 * (newSum - oldSum) * 1000 + (oldSum \div 100)) \div (2 * (oldSum \div 100)))

\* the base growth of the five years is the price growth of the metrics
\* decayed by 0.9 per year when the metrics hold one, and the growth rate of
\* the area otherwise
BaseGrowthFollowsMetrics ==
  \A year \in 1..5 :
    pOut.baseGrowth[year]
      = IF pOut.metrics.priceGrowth.present
          THEN Decay(pOut.metrics.priceGrowth.v, 90, year - 1)
          ELSE Num(areaData[IF pOut.postcode = SW1A1AA THEN "SW" ELSE "DEFAULT"].growthRate)

\* C26 (as stated): priceGrowth is computed if and only if the list holds 3
\* sales or more, from its 3 first (most recent) and 3 last (oldest) records,
\* and the engine takes it, decayed, as base growth when it is there and the
\* growth rate of the area when it is not.
C26_GrowthFromThreeSales ==
  pOut.pc = "grown" =>
    LET n == Len(pOut.sales)
        windows == {1, 2, 3, n - 2, n - 1, n}
    IN  /\ pOut.metrics.priceGrowth.present <=> n >= 3
        /\ (n >= 3 /\ \A i \in windows : ~pOut.sales[i].price.nan
                                         /\ pOut.sales[i].price.v > 0) =>
             pOut.metrics.priceGrowth.v
               = PercentChange([i \in 1..n |-> pOut.sales[i].price.v])
        /\ BaseGrowthFollowsMetrics

\* C26 (amended): priceGrowth is computed if and only if the list holds 3
\* sales or more with a positive price, from the 3 first and the 3 last of
\* these prices in the order of the list; the engine takes it, decayed by 0.9
\* per year, as base growth when it is there and the growth rate of the area
\* when it is not.
C26_GrowthFromThreePrices ==
  pOut.pc = "grown" =>
    LET kept   == SelectSeq(pOut.sales, LAMBDA sale : ~sale.price.nan /\ sale.price.v > 0)
        prices == [i \in 1..Len(kept) |-> kept[i].price.v]
    IN  /\ pOut.metrics.priceGrowth.present <=> Len(prices) >= 3
        /\ Len(prices) >= 3 => pOut.metrics.priceGrowth.v = PercentChange(prices)
        /\ BaseGrowthFollowsMetrics

C26_Witness ==
  /\ pOut.pc = "grown"
  /\ Len(pOut.sales) = SalesCap
  /\ pOut.metrics.priceGrowth = [present |-> TRUE, v |-> Num(38889)]
  /\ pOut.baseGrowth[1] = Num(38889)
  /\ pOut.baseGrowth[2] = Num(35000)

\* C29: a postcode whose area (its leading letters) has two letters resolves
\* to this two-letter code or, when the table does not hold it, to "DEFAULT":
\* never to the one-letter code of its first letter.
C29_OneLetterOnlyForOneLetterAreas ==
  aOut.engine # "none" =>
    LET c == toUpperCase(StripWhitespace(aIn))
    IN  (Len(c) >= 2 /\ c[1] \in UpperLetters /\ c[2] \in UpperLetters) =>
          aOut.code \in {Join(SubSeq(c, 1, 2)), "DEFAULT"}


-----------------------------------------------------------------------------
(* C27: the two maps of the cache hold the same keys *)

\* C27: after any sequence of setCache and isCached calls and clock advances,
\* the value map and the expiry map of a provider hold exactly the same keys,
\* and so did they when the latest isCached call returned.
C27_SameKeys ==
  /\ DOMAIN cache = DOMAIN cacheExpiry
  /\ lookup.inCache <=> lookup.inExpiry

\* an isCached call found a key set earlier expired and removed it, while
\* another key stays cached
C27_Witness ==
  /\ inst = "client"
  /\ lookup.known /\ ~lookup.hit
  /\ lookup.at > lookup.setAt + lookup.setDur
  /\ ~lookup.inCache
  /\ cache # EmptyMap


-----------------------------------------------------------------------------
(* C28: only what an upstream delivered is cached *)

\* the upstream call of fetcher f fails in this step (for a two-tier fetcher:
\* one of its two calls)
FetchFails(f) ==
  /\ InFlight(task[f])
  /\ \/ task[f].st = "primary" /\ task'[f].st = "secondary"
     \/ IsSettled(task'[f]) /\ upstream'[f].res = "failed"

-----------------------------------------------------------------------------
(* C22: the two tiers of the base-rate fetcher *)

\* the base-rate fetcher wrote the rate it returns, with the expiry of this write
RateCachedNow ==
  /\ upstream'["bankRate"].res = "ok"
  /\ Rate \in DOMAIN cache' /\ cache'[Rate] = task'["bankRate"].val
  /\ Rate \in DOMAIN cacheExpiry' /\ cacheExpiry'[Rate] = now + cacheDuration.bankRate

\* C22: every step of getBankOfEnglandBaseRate follows the two-tier protocol.
\* A call that misses the cache calls the primary source (a hit calls none);
\* when the primary call answers, the rate is cached and the call is over;
\* when it fails, the secondary source is called, with the cache untouched;
\* when the secondary call answers, the rate is cached and the call is over;
\* when it fails too, the fetcher rejects.  No step leads back to a source
\* already tried.
C22_TwoTierNoRetry ==
  [][ LET old == task["bankRate"]
          new == task'["bankRate"]
      IN  (new # old /\ task' # [f \in Fetchers |-> IdleTask])
            => CASE old.st = "primary"
                      -> \/ new.st = "fulfilled" /\ RateCachedNow
                         \/ /\ new.st = "secondary"
                            /\ UNCHANGED <<cache, cacheExpiry>>
                 [] old.st = "secondary"
                      -> \/ new.st = "fulfilled" /\ RateCachedNow
                         \/ /\ new.st = "rejected"
                            /\ upstream'["bankRate"].res = "failed"
                            /\ UNCHANGED <<cache, cacheExpiry>>
                 [] OTHER
                      -> \/ new.st = "primary" /\ Rate \notin DOMAIN cache'
                         \/ /\ new.st = "fulfilled"
                            /\ Rate \in DOMAIN cache /\ new.val = cache[Rate]
                            /\ UNCHANGED <<cache, cacheExpiry>>
    ]_vars

\* both sources failed: the fetcher rejected and the rate is not cached
C22_Witness ==
  /\ inst = "client"
  /\ task["bankRate"].st = "rejected"
  /\ upstream["bankRate"].res = "failed"
  /\ Rate \notin DOMAIN cache


-----------------------------------------------------------------------------
(* C21: every fetch ends *)

\* C21: every fetch is bounded in time, so that every request the handler
\* took up is eventually answered, whether or not the upstreams answer: a
\* fetch in flight eventually ends and the handler eventually is done.
C21_EveryFetchEnds ==
  /\ \A f \in Fetchers : InFlight(task[f]) ~> ~InFlight(task[f])
  /\ (hpc # "idle") ~> (hpc = "idle" /\ Len(responses) = 1)


-----------------------------------------------------------------------------
(* C30: one response per request *)

\* the status codes the path of the request in req can end with
StatusesOfPath ==
  CASE req.method = "OPTIONS" -> {200}
    [] req.method # "GET"     -> {405}
    [] PostcodeMissing(req.query) \/ ~isValidUKPostcode(req.query.str) -> {400}
    [] "rtThrew" \in trace    -> {200, 500}
    [] OTHER                  -> {200}

\* C30: the handler sends exactly one response per request: none while it
\* waits at an await, exactly one when it is done, never a second one, and
\* the status is the one of its path (OPTIONS 200, other non-GET 405, missing
\* or invalid postcode 400, real-time success 200, real-time failure 200 from
\* the fallback or 500).
C30_ExactlyOneResponse ==
  /\ Len(responses) <= 1
  /\ hpc # "idle" => responses = <<>>
  /\ (hpc = "idle" /\ nreq > 0)
       => /\ Len(responses) = 1
          /\ responses[1].status \in {200, 400, 405, 500}
          /\ responses[1].status \in StatusesOfPath

\* the second request of the run ended in the catch blocks and was answered
\* once, with 500
C30_Witness ==
  /\ hpc = "idle"
  /\ nreq = 2
  /\ "rtThrew" \in trace
  /\ Len(responses) = 1
  /\ responses[1].status = 500


-----------------------------------------------------------------------------
(* C24: two callers repopulating one key *)

Inflation == <<"inflation">>

\* both callers missed the cache, fetched and wrote the key, and both are done
BothRepopulated ==
  /\ Len(race.log) = 2
  /\ race.log[1].by # race.log[2].by
  /\ \A c \in Callers : ~InFlight(race.call[c])

\* C24: when two callers of the inflation fetcher both found the key absent
\* and both repopulated it, each completed with the value it fetched, and
\* the cache holds the value of the later write with the expiry of that same
\* write; at every moment a cached value and its expiry are those of the
\* latest write.
C24_LastWriterWins ==
  /\ BothRepopulated
       => /\ \A i \in 1..2 :
               race.call[race.log[i].by] =
                 [st |-> "fulfilled", key |-> Inflation, val |-> race.log[i].val]
          /\ Inflation \in DOMAIN cache
          /\ cache[Inflation] = race.log[2].val
          /\ cacheExpiry[Inflation] = race.log[2].at + DurationOf(Inflation)
  /\ (race.log # <<>> /\ Inflation \in DOMAIN cache)
       => /\ cache[Inflation] = race.log[Len(race.log)].val
          /\ cacheExpiry[Inflation] = race.log[Len(race.log)].at + DurationOf(Inflation)

\* the second writer had called before the first write, the two writes were
\* made at different times with different values, and the cache holds the
\* second
C24_Witness ==
  /\ BothRepopulated
  /\ race.at[race.log[2].by] <= race.log[1].at
  /\ race.log[1].at < race.log[2].at
  /\ race.log[1].val # race.log[2].val
  /\ cache[Inflation] = race.log[2].val

====
